---- MODULE Spec2Model ----
(***************************************************************************)
(* TOC buffer-management backend: sales aggregation, buffer recalculation, *)
(* recommendations and the request layer, modelled over the relational     *)
(* store they share.                                                       *)
(*                                                                         *)
(* Numbers (DECIMAL columns, JS numbers) are exact rationals <<n, d>> with *)
(* d > 0 in lowest terms; floating-point rounding is not modelled.         *)
(* Timestamps are counted in half-days: an even timestamp is a midnight,   *)
(* the calendar date d is the timestamp 2*d.                               *)
(***************************************************************************)
EXTENDS Integers, Sequences, FiniteSets, TLC

VARIABLES now, sales_events, sales_daily, buffers, stock_snapshots,
          warehouses, last, listing, generations, recalcs,
          lead_time_stats, purchase_orders, purchase_order_lines,
          assistantMemory, conversations, orgs, users, registrations,
          recommendations, teardowns, openaiClient

vars == <<now, sales_events, sales_daily, buffers, stock_snapshots,
          warehouses, last, listing, generations, recalcs,
          lead_time_stats, purchase_orders, purchase_order_lines,
                 assistantMemory, conversations, orgs, users,
                 registrations, recommendations, teardowns,
                 openaiClient>>

---------------------------------------------------------------------------
(* Exact rational arithmetic *)

Abs(x) == IF x < 0 THEN -x ELSE x

RECURSIVE GCD(_, _)
GCD(a, b) == IF b = 0 THEN a ELSE GCD(b, a % b)

RNorm(n, d) ==
  LET s == IF d < 0 THEN -1 ELSE 1
      g == GCD(Abs(n), Abs(d))
  IN  <<(s * n) \div g, (s * d) \div g>>

R(i) == <<i, 1>>
RAdd(a, b) == RNorm(a[1] * b[2] + b[1] * a[2], a[2] * b[2])
RSub(a, b) == RNorm(a[1] * b[2] - b[1] * a[2], a[2] * b[2])
RMul(a, b) == RNorm(a[1] * b[1], a[2] * b[2])
RDiv(a, b) == RNorm(a[1] * b[2], a[2] * b[1])
RLe(a, b) == a[1] * b[2] <= b[1] * a[2]
RLt(a, b) == a[1] * b[2] < b[1] * a[2]
RIsInt(a) == a[2] = 1
\* Math.floor / Math.ceil / Math.round (round half towards +infinity)
RFloor(a) == a[1] \div a[2]
RCeil(a) == -((-a[1]) \div a[2])
RRound(a) == RFloor(RAdd(a, <<1, 2>>))

\* the sum of f[x] over x in S, f a function to rationals
RECURSIVE RSum(_, _)
RSum(f, S) ==
  IF S = {} THEN R(0)
  ELSE LET x == CHOOSE y \in S : TRUE
       IN  RAdd(f[x], RSum(f, S \ {x}))

---------------------------------------------------------------------------
(* Bounds and universes *)

NULL == "NULL"
\* an absent number or date (undefined, SQL NULL), and a present one
None == <<>>
Some(v) == <<v>>
Orgs == {"o1", "o2"}
WarehouseIds == {"w1", "w2"}
Skus == {"A", "B"}

\* today is calendar day 100; its midnight is timestamp 200
Today == 100
MaxTicks == 1
MaxRollups == 2

Midnight(d) == 2 * d

\* new Date(date) of a string that is no date: the time value is NaN
InvalidDate == -1

---------------------------------------------------------------------------
(* Tables: functions from the primary key to the row *)

EmptyTable == [k \in {} |-> NULL]

\* last: the last operation run, its arguments (org, wh, a, b), what it
\* returned (ret), whether it threw (err), and whether it repeats the
\* operation before it with the same arguments and no write in between
NoOp == [op |-> "none", org |-> NULL, wh |-> NULL, a |-> None, b |-> None,
         ret |-> None, err |-> FALSE, again |-> FALSE]

\* no listBuffersPage call in flight
NoListing ==
  [pc |-> "idle", org |-> NULL, wh |-> NULL, skip |-> 0, take |-> 0,
   rows |-> None, total |-> None]

\* the clients that may run recalcBuffers at the same time, none running
Procs == {"p1", "p2"}
NoRecalc ==
  [pc |-> "idle", org |-> NULL, wh |-> NULL, rows |-> EmptyTable, t |-> 0]
NoRecalcs == [p \in Procs |-> NoRecalc]

\* a conversation, a registration and a teardown that are not running
NoConversation ==
  [pc |-> "idle", orgId |-> NULL, memoryKey |-> <<>>, question |-> 0,
   context |-> [warehouses |-> {}], iteration |-> 0]
NoConversations == [p \in Procs |-> NoConversation]
\* the orgs table of a deployment whose two orgs exist
GivenOrgs == [id \in Orgs |-> [name |-> id]]
NoRegistration == [pc |-> "idle", input |-> NULL, email |-> NULL, orgName |-> NULL]
NoRegistrations == [p \in Procs |-> NoRegistration]
NoTeardown == [pc |-> "idle", id |-> NULL, org_id |-> NULL]
NoTeardowns == [p \in Procs |-> NoTeardown]

\* generations is the history of the buffers table over the call in flight:
\* the table at its start and every table committed since
Committed(bf) ==
  IF listing.pc = "idle" THEN generations ELSE generations \cup {bf}

---------------------------------------------------------------------------
(* calculations/buffers.ts *)

DEFAULT_LEAD_TIME_DAYS == 7
BUFFER_FACTOR == <<6, 5>>
LookbackDays == 60

\* subDays(new Date(), lookbackDays)
SinceDate(t) == t - Midnight(LookbackDays)

\* where: org_id, warehouse_id, date >= sinceDate (keys of sales_daily:
\* <<org_id, date, sku, warehouse_id, channel>>)
DemandKeys(sd, o, w, since) ==
  {k \in DOMAIN sd : k[1] = o /\ k[4] = w /\ k[2] >= since}

\* groupBy sku, _avg units: SQL AVG over the rows of the group
AvgUnits(sd, keys) ==
  RDiv(RSum([k \in keys |-> sd[k].units], keys), R(Cardinality(keys)))

BufferQty(avgDailyDemand, leadTimeDays) ==
  RMul(RMul(avgDailyDemand, R(leadTimeDays)), BUFFER_FACTOR)

RedThMut(bufferQty) == RDiv(bufferQty, R(2))
RedTh(bufferQty) == RDiv(bufferQty, R(3))

YellowTh(bufferQty) == RDiv(RMul(bufferQty, R(2)), R(3))

BufferRow(avgDailyDemand, t) ==
  LET leadTimeDays == DEFAULT_LEAD_TIME_DAYS
      bufferQty == BufferQty(avgDailyDemand, leadTimeDays)
  IN  [lead_time_days |-> R(leadTimeDays),
       avg_daily_demand |-> avgDailyDemand,
       buffer_qty |-> bufferQty,
       red_th |-> RedTh(bufferQty),
       yellow_th |-> YellowTh(bufferQty),
       updated_at |-> t]

\* the SKUs the groupBy returns
DemandSkus(sd, o, w, since) == {k[3] : k \in DemandKeys(sd, o, w, since)}

\* the $transaction of upserts, one per demand row (keys of buffers:
\* <<org_id, sku, warehouse_id>>)
UpsertBuffersMut(bf, sd, o, w, since, t) ==
  LET skus == DemandSkus(sd, o, w, since)
      mine == {k \in DOMAIN bf : k[1] = o /\ k[3] = w}
      touched == {<<o, s, w>> : s \in skus}
  IN  [k \in DOMAIN bf \cup touched |->
         IF k \in touched
         THEN BufferRow(AvgUnits(sd, {r \in DemandKeys(sd, o, w, since) :
                                        r[3] = k[2]}), t)
         ELSE IF k \in mine THEN BufferRow(R(0), t)
         ELSE bf[k]]
UpsertBuffersWide(bf, sd, o, w, since, t) ==
  LET skus == DemandSkus(sd, o, w, since)
      touched == {<<o, s, x>> : s \in skus, x \in WarehouseIds}
  IN  [k \in DOMAIN bf \cup touched |->
         IF k \in touched
         THEN BufferRow(AvgUnits(sd, {r \in DemandKeys(sd, o, w, since) :
                                        r[3] = k[2]}), t)
         ELSE bf[k]]
UpsertBuffers(bf, sd, o, w, since, t) ==
  LET skus == DemandSkus(sd, o, w, since)
      touched == {<<o, s, w>> : s \in skus}
  IN  [k \in DOMAIN bf \cup touched |->
         IF k \in touched
         THEN BufferRow(AvgUnits(sd, {r \in DemandKeys(sd, o, w, since) :
                                        r[3] = k[2]}), t)
         ELSE bf[k]]

RecalcBuffers(o, w) ==
  LET since == SinceDate(now)
      n == Cardinality(DemandSkus(sales_daily, o, w, since))
  IN  /\ buffers' = IF n = 0 THEN buffers
                    ELSE UpsertBuffers(buffers, sales_daily, o, w, since, now)
      /\ last' = [op |-> "recalc", org |-> o, wh |-> w, a |-> since,
                  b |-> None, ret |-> n, err |-> FALSE, again |-> FALSE]
      /\ generations' = Committed(buffers')
      /\ UNCHANGED <<now, sales_events, sales_daily, stock_snapshots,
                     warehouses, listing,
                     recalcs, lead_time_stats, purchase_orders,
                     purchase_order_lines,
                 assistantMemory, conversations, orgs, users,
                 registrations, recommendations, teardowns,
                 openaiClient>>

\* the clock advances by half a day
Tick ==
  /\ now < Midnight(Today) + MaxTicks
  /\ now' = now + 1
  /\ UNCHANGED <<sales_events, sales_daily, buffers, stock_snapshots,
                 warehouses, last, listing, generations,
                 recalcs, lead_time_stats, purchase_orders,
                 purchase_order_lines,
                 assistantMemory, conversations, orgs, users,
                 registrations, recommendations, teardowns,
                 openaiClient>>

---------------------------------------------------------------------------
(* Buffer engine: rollups given, recalculation runs for any org and        *)
(* warehouse as time passes.                                               *)

Scopes == {<<"o1", "w1">>, <<"o1", "w2">>, <<"o2", "w1">>}
RollupDays == {Today - LookbackDays, Today}
RollupUnits == {R(-1), R(2)}

RollupUniverse ==
  {[key |-> <<sc[1], Midnight(d), s, sc[2], "ALL">>,
    row |-> [units |-> u, revenue |-> R(0), orders |-> 1,
             updated_at |-> Midnight(Today)]] :
     sc \in Scopes, d \in RollupDays, s \in Skus, u \in RollupUnits}

RECURSIVE RowSetsUpTo(_, _)
RowSetsUpTo(U, n) ==
  IF n = 0 THEN {{}}
  ELSE LET P == RowSetsUpTo(U, n - 1)
       IN  P \cup UNION {{s \cup {r} :
                             r \in {x \in U : \A y \in s : y.key # x.key}} :
                           s \in P}

TableOf(rows) ==
  [k \in {r.key : r \in rows} |-> (CHOOSE r \in rows : r.key = k).row]

InitBuffers ==
  /\ now = Midnight(Today)
  /\ sales_events = EmptyTable
  /\ sales_daily \in {TableOf(rows) : rows \in RowSetsUpTo(RollupUniverse, MaxRollups)}
  /\ buffers = EmptyTable
  /\ stock_snapshots = EmptyTable
  /\ warehouses = EmptyTable
  /\ last = NoOp
  /\ listing = NoListing
  /\ generations = {}
  /\ recalcs = NoRecalcs
  /\ lead_time_stats = EmptyTable
  /\ purchase_orders = EmptyTable
  /\ purchase_order_lines = EmptyTable
  /\ assistantMemory = EmptyTable
  /\ conversations = NoConversations
  /\ orgs = GivenOrgs
  /\ users = EmptyTable
  /\ registrations = NoRegistrations
  /\ recommendations = EmptyTable
  /\ teardowns = NoTeardowns
  /\ openaiClient = FALSE

NextBuffers ==
  \/ \E o \in Orgs, w \in WarehouseIds : RecalcBuffers(o, w)
  \/ Tick

SpecBuffers == InitBuffers /\ [][NextBuffers]_vars

\* the rollup rows of one SKU in the window of a recalculation
WindowKeys(o, w, s, since) ==
  {k \in DemandKeys(sales_daily, o, w, since) : k[3] = s}

\* C1: after recalcBuffers, avg_daily_demand of every SKU of the run is the
\* zero-filled mean: (sum of the units of its rollup rows in the window)
\* divided by the N = 60 lookback days, not by the number of days with rows.
C1_ZeroFilledMean ==
  last.op = "recalc" =>
    \A s \in DemandSkus(sales_daily, last.org, last.wh, last.a) :
      LET keys == WindowKeys(last.org, last.wh, s, last.a)
      IN  buffers[<<last.org, s, last.wh>>].avg_daily_demand =
            RDiv(RSum([k \in keys |-> sales_daily[k].units], keys),
                 R(LookbackDays))

\* C2: every stored Buffer row has red_th = buffer_qty/3,
\* yellow_th = 2*buffer_qty/3 and buffer_qty = avg_daily_demand *
\* lead_time_days * 1.2, hence red_th <= yellow_th <= buffer_qty whenever
\* buffer_qty >= 0.
C2_ThresholdInvariant ==
  \A k \in DOMAIN buffers :
    LET b == buffers[k]
    IN  /\ RMul(b.red_th, R(3)) = b.buffer_qty
        /\ RMul(b.yellow_th, R(3)) = RMul(R(2), b.buffer_qty)
        /\ b.buffer_qty = RMul(RMul(b.avg_daily_demand, b.lead_time_days),
                               <<12, 10>>)
        /\ (RLe(R(0), b.buffer_qty) =>
              RLe(b.red_th, b.yellow_th) /\ RLe(b.yellow_th, b.buffer_qty))

C2_Witness ==
  /\ last.op = "recalc"
  /\ \E k \in DOMAIN buffers : RLt(R(0), buffers[k].buffer_qty)
  /\ \E k \in DOMAIN buffers : RLt(buffers[k].buffer_qty, R(0))

\* C10: recalcBuffers(org, warehouse) changes only the Buffer rows of SKUs
\* with a rollup row of that org and warehouse in the window; every other
\* Buffer row stays as it was, and with no such SKU nothing is written and
\* the run returns updated = 0.
C10_RecalcFrame ==
  [][last'.op = "recalc" =>
       LET touched == {<<last'.org, s, last'.wh>> :
                         s \in DemandSkus(sales_daily, last'.org, last'.wh,
                                          last'.a)}
       IN  /\ DOMAIN buffers' = DOMAIN buffers \cup touched
           /\ \A k \in DOMAIN buffers \ touched : buffers'[k] = buffers[k]
           /\ (touched = {} => buffers' = buffers /\ last'.ret = 0)]_vars

C10_Witness ==
  /\ last.op = "recalc"
  /\ last.ret > 0
  /\ \E k \in DOMAIN buffers :
       /\ k[1] = last.org /\ k[3] = last.wh
       /\ k[2] \notin DemandSkus(sales_daily, last.org, last.wh, last.a)
       /\ buffers[k].updated_at < now

---------------------------------------------------------------------------
(* ingest/service.ts: importSales.  Rows of sales_events are keyed by      *)
(* <<org_id, order_id, line_id>>; only the columns the aggregator reads    *)
(* are kept (order_datetime, sku, qty, net_amount, warehouse_id, channel). *)

SalesItems ==
  {[order_id |-> "ord1", line_id |-> "l1", order_datetime |-> Midnight(Today - 1),
    sku |-> "A", qty |-> R(2), net_amount |-> R(5),
    warehouse_id |-> NULL, channel |-> NULL],
   [order_id |-> "ord1", line_id |-> "l2", order_datetime |-> Midnight(Today - 1) + 1,
    sku |-> "A", qty |-> R(1), net_amount |-> None,
    warehouse_id |-> "GLOBAL", channel |-> "ALL"],
   [order_id |-> "ord2", line_id |-> "l1", order_datetime |-> Midnight(Today - 1) + 1,
    sku |-> "A", qty |-> R(3), net_amount |-> R(2),
    warehouse_id |-> NULL, channel |-> NULL],
   [order_id |-> "ord1", line_id |-> "l1", order_datetime |-> Midnight(Today),
    sku |-> "A", qty |-> R(2), net_amount |-> R(5),
    warehouse_id |-> "w1", channel |-> "web"],
   [order_id |-> "ord2", line_id |-> "l1", order_datetime |-> Midnight(Today),
    sku |-> "B", qty |-> R(-1), net_amount |-> None,
    warehouse_id |-> "w1", channel |-> "web"]}

\* one prisma.sales_events.upsert
UpsertSale(ev, o, item) ==
  LET key == <<o, item.order_id, item.line_id>>
      row == [order_datetime |-> item.order_datetime, sku |-> item.sku,
              qty |-> item.qty, net_amount |-> item.net_amount,
              warehouse_id |-> item.warehouse_id, channel |-> item.channel]
  IN  [k \in DOMAIN ev \cup {key} |-> IF k = key THEN row ELSE ev[k]]

\* the $transaction of upserts, in payload order
RECURSIVE UpsertSales(_, _, _)
UpsertSales(ev, o, items) ==
  IF items = <<>> THEN ev
  ELSE UpsertSales(UpsertSale(ev, o, Head(items)), o, Tail(items))

\* a date string that is no date makes the client library reject the
\* transaction, and nothing of the payload is stored
ImportSales(o, items) ==
  LET fails == \E i \in 1..Len(items) : items[i].order_datetime = InvalidDate
  IN
  /\ sales_events' = IF fails THEN sales_events
                     ELSE UpsertSales(sales_events, o, items)
  /\ last' = [op |-> "importSales", org |-> o, wh |-> NULL, a |-> items,
              b |-> None, ret |-> IF fails THEN 0 ELSE Len(items),
              err |-> fails,
              again |-> /\ last.op = "importSales" /\ last.org = o
                        /\ last.a = items /\ ~last.err]
  /\ UNCHANGED <<now, sales_daily, buffers, stock_snapshots, warehouses,
                 listing, generations,
                 recalcs, lead_time_stats, purchase_orders,
                 purchase_order_lines,
                 assistantMemory, conversations, orgs, users,
                 registrations, recommendations, teardowns,
                 openaiClient>>

---------------------------------------------------------------------------
(* sales/daily-builder.ts *)

WAREHOUSE_FALLBACK == "GLOBAL"
CHANNEL_FALLBACK == "ALL"
DefaultRangeDays == 90

Coalesce(v, dflt) == IF v = NULL THEN dflt ELSE v

\* date(order_datetime), as a midnight timestamp
DateOf(t) == Midnight(t \div 2)

\* formatISO(today, date) / formatISO(subDays(today, 90), date)
FromDate(from, t) == IF from = None THEN (t \div 2) - DefaultRangeDays ELSE from[1]
ToDate(to, t) == IF to = None THEN t \div 2 ELSE to[1]

\* WHERE org_id = orgId AND order_datetime BETWEEN new Date(fromDate)
\*   AND new Date(`${toDate}T23:59:59.999Z`)
EventsInRangeMut(ev, o, fromDate, toDate) ==
  {k \in DOMAIN ev : k[1] = o}
EventsInRange(ev, o, fromDate, toDate) ==
  {k \in DOMAIN ev : /\ k[1] = o
                     /\ ev[k].order_datetime >= Midnight(fromDate)
                     /\ ev[k].order_datetime <= Midnight(toDate) + 1}

\* GROUP BY org_id, date(order_datetime), sku, warehouse_id, channel: the
\* names warehouse_id and channel are the input columns, not the coalesced
\* output columns
GroupOf(ev, k) ==
  <<DateOf(ev[k].order_datetime), ev[k].sku, ev[k].warehouse_id, ev[k].channel>>

Groups(ev, keys) == {GroupOf(ev, k) : k \in keys}

\* the conflict target (org_id, date, sku, warehouse_id, channel) of a group
RollupKey(o, g) ==
  <<o, g[1], g[2], Coalesce(g[3], WAREHOUSE_FALLBACK),
    Coalesce(g[4], CHANNEL_FALLBACK)>>

\* coalesce(sum(qty), 0), coalesce(sum(net_amount), 0), count(distinct order_id)
Excluded(ev, keys, g) ==
  LET members == {k \in keys : GroupOf(ev, k) = g}
      priced == {k \in members : ev[k].net_amount # None}
  IN  [units |-> RSum([k \in members |-> ev[k].qty], members),
       revenue |-> RSum([k \in priced |-> ev[k].net_amount], priced),
       orders |-> Cardinality({k[2] : k \in members})]

\* INSERT of a new row: updated_at DEFAULT CURRENT_TIMESTAMP
InsertRollup(excluded, t) ==
  [units |-> excluded.units, revenue |-> excluded.revenue,
   orders |-> excluded.orders, updated_at |-> t]

\* ON CONFLICT ... DO UPDATE SET units = excluded.units, ..., updated_at = now()
ConflictUpdateMut(old, excluded, t) ==
  [units |-> RAdd(old.units, excluded.units),
   revenue |-> RAdd(old.revenue, excluded.revenue),
   orders |-> old.orders + excluded.orders, updated_at |-> t]
ConflictUpdate(old, excluded, t) ==
  [units |-> excluded.units, revenue |-> excluded.revenue,
   orders |-> excluded.orders, updated_at |-> t]

\* two proposed rows with one conflict target: "ON CONFLICT DO UPDATE command
\* cannot affect row a second time", the statement fails and changes nothing
RebuildFails(ev, o, fromDate, toDate) ==
  LET gs == Groups(ev, EventsInRange(ev, o, fromDate, toDate))
  IN  \E g1, g2 \in gs : g1 # g2 /\ RollupKey(o, g1) = RollupKey(o, g2)

RebuildRows(sd, ev, o, fromDate, toDate, t) ==
  LET keys == EventsInRange(ev, o, fromDate, toDate)
      gs == Groups(ev, keys)
      targets == {RollupKey(o, g) : g \in gs}
      groupOf(rk) == CHOOSE g \in gs : RollupKey(o, g) = rk
  IN  [rk \in DOMAIN sd \cup targets |->
         IF rk \in targets
         THEN IF rk \in DOMAIN sd
              THEN ConflictUpdate(sd[rk], Excluded(ev, keys, groupOf(rk)), t)
              ELSE InsertRollup(Excluded(ev, keys, groupOf(rk)), t)
         ELSE sd[rk]]

RebuildSalesDaily(o, from, to) ==
  LET fromDate == FromDate(from, now)
      toDate == ToDate(to, now)
      fails == RebuildFails(sales_events, o, fromDate, toDate)
  IN  /\ sales_daily' = IF fails THEN sales_daily
                        ELSE RebuildRows(sales_daily, sales_events, o,
                                         fromDate, toDate, now)
      \* ret is the applied range {from, to}; with err the statement threw
      /\ last' = [op |-> "rebuild", org |-> o, wh |-> NULL, a |-> from,
                  b |-> to, ret |-> <<fromDate, toDate>>, err |-> fails,
                  again |-> /\ last.op = "rebuild" /\ last.org = o
                            /\ last.a = from /\ last.b = to
                            /\ last.ret = <<fromDate, toDate>>]
      /\ UNCHANGED <<now, sales_events, buffers, stock_snapshots, warehouses,
                     listing, generations,
                     recalcs, lead_time_stats, purchase_orders,
                     purchase_order_lines,
                 assistantMemory, conversations, orgs, users,
                 registrations, recommendations, teardowns,
                 openaiClient>>

---------------------------------------------------------------------------
(* Sales aggregator: events are ingested, rollups rebuilt over any range.  *)

FromDays == {None, Some(Today)}
ToDays == {None, Some(Today - 1)}
MaxEvents == 2

\* what each org sells: o1 any of the items, o2 only SKU B
ItemsOf(o) == {x \in SalesItems : o = "o1" \/ x.sku = "B"}

InitSales ==
  /\ now = Midnight(Today)
  /\ sales_events = EmptyTable
  /\ sales_daily = EmptyTable
  /\ buffers = EmptyTable
  /\ stock_snapshots = EmptyTable
  /\ warehouses = EmptyTable
  /\ last = NoOp
  /\ listing = NoListing
  /\ generations = {}
  /\ recalcs = NoRecalcs
  /\ lead_time_stats = EmptyTable
  /\ purchase_orders = EmptyTable
  /\ purchase_order_lines = EmptyTable
  /\ assistantMemory = EmptyTable
  /\ conversations = NoConversations
  /\ orgs = GivenOrgs
  /\ users = EmptyTable
  /\ registrations = NoRegistrations
  /\ recommendations = EmptyTable
  /\ teardowns = NoTeardowns
  /\ openaiClient = FALSE

NextSales ==
  \/ \E o \in Orgs : \E i \in ItemsOf(o) :
       /\ Cardinality(DOMAIN UpsertSales(sales_events, o, <<i>>)) <= MaxEvents
       /\ ImportSales(o, <<i>>)
  \/ \E o \in Orgs, from \in FromDays, to \in ToDays :
       RebuildSalesDaily(o, from, to)
  \/ Tick

SpecSales == InitSales /\ [][NextSales]_vars

\* the aggregate columns of the rollup rows (all but updated_at)
Aggregates(sd) ==
  [k \in DOMAIN sd |-> [units |-> sd[k].units, revenue |-> sd[k].revenue,
                        orders |-> sd[k].orders]]

\* C3 as stated: a second rebuildSalesDaily over the same events and range
\* leaves exactly the rows of the first run, every column included.
C3_ByteIdentical ==
  [][last'.op = "rebuild" /\ last'.again => sales_daily' = sales_daily]_vars

\* C3 amended: the second run leaves the same keys (no duplicates) with the
\* same units, revenue and orders; only updated_at of the rows in the range
\* moves to the time of the second run.
C3_IdempotentAggregates ==
  [][last'.op = "rebuild" /\ last'.again =>
       /\ Aggregates(sales_daily') = Aggregates(sales_daily)
       /\ \A k \in DOMAIN sales_daily :
            sales_daily'[k].updated_at \in {sales_daily[k].updated_at, now'}]_vars

C3_Witness ==
  /\ last.op = "rebuild" /\ last.again /\ ~last.err
  /\ now > Midnight(Today)
  /\ \E k \in DOMAIN sales_daily :
       /\ k[1] = last.org
       /\ sales_daily[k].updated_at = now
       /\ sales_daily[k].orders = 2
  /\ \E k \in DOMAIN sales_daily : sales_daily[k].updated_at < now

\* the rollup key an event maps to: a missing warehouse is "GLOBAL", a
\* missing channel "ALL"
EventKey(ev, k) ==
  <<k[1], DateOf(ev[k].order_datetime), ev[k].sku,
    Coalesce(ev[k].warehouse_id, "GLOBAL"), Coalesce(ev[k].channel, "ALL")>>

\* the events of the last rebuild's org inside its applied range
RebuiltEvents ==
  {k \in DOMAIN sales_events :
     /\ k[1] = last.org
     /\ DateOf(sales_events[k].order_datetime) >= Midnight(last.ret[1])
     /\ DateOf(sales_events[k].order_datetime) <= Midnight(last.ret[2])}

\* C12: every rebuildSalesDaily succeeds, and each rollup key touched by
\* events in the range then stores units = sum(qty), revenue =
\* sum(net_amount) and orders = count(distinct order_id) over all in-range
\* events that map to the key.
C12_RollupSums ==
  last.op = "rebuild" =>
    /\ ~last.err
    /\ \A k \in RebuiltEvents :
         LET rk == EventKey(sales_events, k)
             members == {j \in RebuiltEvents : EventKey(sales_events, j) = rk}
             priced == {j \in members : sales_events[j].net_amount # None}
         IN  /\ rk \in DOMAIN sales_daily
             /\ sales_daily[rk].units =
                  RSum([j \in members |-> sales_events[j].qty], members)
             /\ sales_daily[rk].revenue =
                  RSum([j \in priced |-> sales_events[j].net_amount], priced)
             /\ sales_daily[rk].orders = Cardinality({j[2] : j \in members})

\* C13: a rebuild writes only rollup rows of its org dated within the range
\* it returns; every other row stays as it was and no row disappears.  The
\* returned range is the given one, and the trailing 90 days through today
\* where not given.
C13_RebuildFrame ==
  [][last'.op = "rebuild" =>
       /\ last'.ret[1] = IF last'.a = None
                         THEN (now \div 2) - 90 ELSE last'.a[1]
       /\ last'.ret[2] = IF last'.b = None THEN now \div 2 ELSE last'.b[1]
       /\ DOMAIN sales_daily \subseteq DOMAIN sales_daily'
       /\ \A k \in DOMAIN sales_daily' :
            (\/ k[1] # last'.org
             \/ k[2] < Midnight(last'.ret[1])
             \/ k[2] > Midnight(last'.ret[2])) =>
              k \in DOMAIN sales_daily /\ sales_daily'[k] = sales_daily[k]]_vars

\* a rebuild from today on rewrote a row of today and left an older row of
\* the same org as an earlier rebuild wrote it
C13_Witness ==
  /\ last.op = "rebuild" /\ ~last.err /\ last.a = Some(Today)
  /\ \E k \in DOMAIN sales_daily :
       /\ k[1] = last.org /\ k[2] >= Midnight(Today)
       /\ sales_daily[k].updated_at = now
  /\ \E k \in DOMAIN sales_daily :
       /\ k[1] = last.org /\ k[2] < Midnight(Today)
       /\ sales_daily[k].updated_at < now

---------------------------------------------------------------------------
(* ingest/service.ts: importStock.  Rows of stock_snapshots are keyed by   *)
(* <<org_id, date, sku, warehouse_id, batch_id>>.                          *)

DEFAULT_BATCH_ID == "_default"

UpsertStockMut(st, o, item) ==
  LET key == <<o, item.date, item.sku, item.warehouse_id,
               Coalesce(item.batch_id, DEFAULT_BATCH_ID)>>
      row == [qty_on_hand |-> item.qty_on_hand,
              expiry_date |-> item.expiry_date, updated_at |-> now]
  IN  [k \in DOMAIN st \cup {key} |->
         IF k \in DOMAIN st THEN st[k] ELSE row]

\* one prisma.stock_snapshots.upsert
UpsertStock(st, o, item) ==
  LET key == <<o, item.date, item.sku, item.warehouse_id,
               Coalesce(item.batch_id, DEFAULT_BATCH_ID)>>
      row == [qty_on_hand |-> item.qty_on_hand,
              expiry_date |-> item.expiry_date, updated_at |-> now]
  IN  [k \in DOMAIN st \cup {key} |-> IF k = key THEN row ELSE st[k]]

RECURSIVE UpsertStocks(_, _, _)
UpsertStocks(st, o, items) ==
  IF items = <<>> THEN st
  ELSE UpsertStocks(UpsertStock(st, o, Head(items)), o, Tail(items))

ImportStock(o, items) ==
  LET fails == \E i \in 1..Len(items) : items[i].date = InvalidDate
  IN
  /\ stock_snapshots' = IF fails THEN stock_snapshots
                        ELSE UpsertStocks(stock_snapshots, o, items)
  /\ last' = [op |-> "importStock", org |-> o, wh |-> NULL, a |-> items,
              b |-> None, ret |-> IF fails THEN 0 ELSE Len(items),
              err |-> fails,
              again |-> /\ last.op = "importStock" /\ last.org = o
                        /\ last.a = items /\ ~last.err]
  /\ UNCHANGED <<now, sales_events, sales_daily, buffers, warehouses,
                 listing, generations,
                 recalcs, lead_time_stats, purchase_orders,
                 purchase_order_lines,
                 assistantMemory, conversations, orgs, users,
                 registrations, recommendations, teardowns,
                 openaiClient>>

---------------------------------------------------------------------------
(* calculations/buffers.ts: listBuffersPage; recommendations/service.ts    *)

\* orderBy sku asc
SkuOrder == <<"A", "B">>

Max(a, b) == IF a >= b THEN a ELSE b
Min(a, b) == IF a <= b THEN a ELSE b

RECURSIVE Pow10(_)
Pow10(p) == IF p = 0 THEN 1 ELSE 10 * Pow10(p - 1)

\* roundNumber(value, precision)
RoundNumber(value, precision) ==
  RDiv(R(RRound(RMul(value, R(Pow10(precision))))), R(Pow10(precision)))

\* findMany where org_id, warehouse_id orderBy sku asc: the SKUs in order
BufferSkus(bf, o, w) ==
  SelectSeq(SkuOrder, LAMBDA s : <<o, s, w>> \in DOMAIN bf)

PageOfMut(seq, skip, take) ==
  SubSeq(seq, Max(1, skip), Min(Len(seq), skip + take))

\* skip, take
PageOf(seq, skip, take) ==
  SubSeq(seq, skip + 1, Min(Len(seq), skip + take))

\* count where org_id, warehouse_id
BufferCount(bf, o, w) ==
  Cardinality({k \in DOMAIN bf : k[1] = o /\ k[3] = w})

\* fetchStockRows: groupBy sku, _sum qty_on_hand over org, warehouse,
\* rangeStart <= date < rangeEnd, sku in skuList; a function sku -> sum
StockKeys(st, o, w, rangeStart, rangeEnd, skus) ==
  {k \in DOMAIN st : /\ k[1] = o /\ k[4] = w
                     /\ k[2] >= rangeStart /\ k[2] < rangeEnd
                     /\ k[3] \in skus}

FetchStockRows(st, o, w, rangeStart, rangeEnd, skus) ==
  LET keys == StockKeys(st, o, w, rangeStart, rangeEnd, skus)
  IN  [s \in {k[3] : k \in keys} |->
         LET mine == {k \in keys : k[3] = s}
         IN  RSum([k \in mine |-> st[k].qty_on_hand], mine)]

\* findFirst where org_id, warehouse_id, date <= dayEnd orderBy date desc
FallbackDate(st, o, w, dayEnd) ==
  LET dates == {k[2] : k \in {x \in DOMAIN st :
                                x[1] = o /\ x[4] = w /\ x[2] <= dayEnd}}
  IN  IF dates = {} THEN None
      ELSE Some(CHOOSE d \in dates : \A e \in dates : e <= d)

ResolveZoneMut(onHand, red, yellow) ==
  IF RLt(onHand, red) THEN "red"
  ELSE IF RLe(onHand, yellow) THEN "yellow"
  ELSE "green"
ResolveZone(onHand, red, yellow) ==
  IF RLe(onHand, red) THEN "red"
  ELSE IF RLe(onHand, yellow) THEN "yellow"
  ELSE "green"

\* Math.max(0, Math.ceil(orderRaw))
SuggestedQtyMut(orderRaw) == Max(0, RFloor(orderRaw))
SuggestedQty(orderRaw) == Max(0, RCeil(orderRaw))

DetectOverstock(onHand, avgDailyDemand) ==
  IF ~RLt(R(0), avgDailyDemand) THEN None
  ELSE LET demand30 == RMul(avgDailyDemand, R(30))
           ratio == RDiv(onHand, demand30)
       IN  IF RLe(ratio, <<11, 10>>) THEN None
           ELSE Some([ratio |-> RoundNumber(ratio, 2),
                      percent |-> RRound(RMul(ratio, R(100)))])

ClassifySegment(avgDailyDemand) ==
  IF RLe(R(20), avgDailyDemand) THEN "A"
  ELSE IF RLe(R(10), avgDailyDemand) THEN "B"
  ELSE "C"

\* the stock rows used and the effective date: the requested day, else the
\* day of the fallback date
StockLookup(st, o, w, dayStart, skus) ==
  LET dayEnd == dayStart + 2
      first == FetchStockRows(st, o, w, dayStart, dayEnd, skus)
      fb == FallbackDate(st, o, w, dayEnd)
  IN  IF DOMAIN first # {}
      THEN [rows |-> first, effectiveDate |-> Some(dayStart)]
      ELSE IF fb = None THEN [rows |-> first, effectiveDate |-> None]
      ELSE LET fallbackStart == DateOf(fb[1])
               second == FetchStockRows(st, o, w, fallbackStart,
                                        fallbackStart + 2, skus)
           IN  [rows |-> second,
                effectiveDate |-> IF DOMAIN second # {}
                                  THEN Some(fallbackStart) ELSE None]

\* one recommendation row (category, name and reason are not modelled)
RecommendationRow(sku, buffer, stockRows) ==
  LET onHand == IF sku \in DOMAIN stockRows THEN stockRows[sku] ELSE R(0)
      inbound == R(0)
      target == buffer.buffer_qty
      orderRaw == RSub(target, RAdd(onHand, inbound))
      avgDailyDemand == buffer.avg_daily_demand
  IN  [sku |-> sku,
       segment |-> ClassifySegment(avgDailyDemand),
       zone |-> ResolveZone(onHand, buffer.red_th, buffer.yellow_th),
       target |-> RoundNumber(target, 1),
       onHand |-> RoundNumber(onHand, 1),
       inbound |-> inbound,
       suggestedQty |-> SuggestedQty(orderRaw),
       overstock |-> DetectOverstock(onHand, avgDailyDemand),
       avgDailyDemand |-> RoundNumber(avgDailyDemand, 1),
       leadTimeDays |-> RoundNumber(buffer.lead_time_days, 1),
       daysOfSupply |-> IF RLt(R(0), avgDailyDemand)
                        THEN RoundNumber(RDiv(onHand, avgDailyDemand), 1)
                        ELSE None,
       bufferPenetration |-> IF RLt(R(0), target)
                             THEN RoundNumber(RDiv(RAdd(onHand, inbound), target), 2)
                             ELSE None,
       monthlyDemand |-> RoundNumber(RMul(avgDailyDemand, R(30)), 1)]

\* the page returned for the buffer table bf
RecommendationPage(bf, st, o, w, date, page, pageSize) ==
  LET dayStart == DateOf(Midnight(date))
      skip == Max(0, (page - 1) * pageSize)
      skus == PageOf(BufferSkus(bf, o, w), skip, pageSize)
      total == BufferCount(bf, o, w)
      skuList == {skus[i] : i \in 1..Len(skus)}
      stock == StockLookup(st, o, w, dayStart, skuList)
  IN  IF Len(skus) = 0
      THEN [data |-> <<>>, total |-> total, effectiveDate |-> None]
      ELSE [data |-> [i \in 1..Len(skus) |->
                        RecommendationRow(skus[i], bf[<<o, skus[i], w>>],
                                          stock.rows)],
            total |-> total,
            effectiveDate |-> stock.effectiveDate]

\* with an Invalid Date the first stock query is rejected by the client
\* library and the call throws, after the recalculation and the page read;
\* an empty page returns before any stock query
GetRecommendations(o, w, date, autoRecalc, page, pageSize) ==
  LET since == SinceDate(now)
      n == Cardinality(DemandSkus(sales_daily, o, w, since))
      bf == IF autoRecalc /\ n > 0
            THEN UpsertBuffers(buffers, sales_daily, o, w, since, now)
            ELSE buffers
      skip == Max(0, (page - 1) * pageSize)
      throws == /\ date = InvalidDate
                /\ Len(PageOf(BufferSkus(bf, o, w), skip, pageSize)) > 0
  IN  /\ buffers' = bf
      /\ last' = [op |-> "recommendations", org |-> o, wh |-> w,
                  a |-> <<date, autoRecalc>>, b |-> <<page, pageSize>>,
                  ret |-> IF throws THEN None
                          ELSE RecommendationPage(bf, stock_snapshots, o, w,
                                                  date, page, pageSize),
                  err |-> throws, again |-> FALSE]
      /\ generations' = Committed(buffers')
      /\ UNCHANGED <<now, sales_events, sales_daily, stock_snapshots,
                     warehouses, listing,
                     recalcs, lead_time_stats, purchase_orders,
                     purchase_order_lines,
                 assistantMemory, conversations, orgs, users,
                 registrations, recommendations, teardowns,
                 openaiClient>>

---------------------------------------------------------------------------
(* Recommendation engine: rollups given, stock is ingested, pages are read *)

MaxSnapshots == 2
MaxPage == 2
PageSizes == {1, 2}

RollupRow(o, w, sku, units) ==
  [key |-> <<o, Midnight(Today), sku, w, "ALL">>,
   row |-> [units |-> R(units), revenue |-> R(0), orders |-> 1,
            updated_at |-> Midnight(Today)]]

RecoRollups ==
  {RollupRow("o1", "w1", "A", -1), RollupRow("o1", "w1", "A", 0),
   RollupRow("o1", "w1", "A", 2), RollupRow("o1", "w1", "B", 2),
   RollupRow("o2", "w1", "A", 2)}

StockItem(day, sku, w, qty, batch) ==
  [date |-> Midnight(day), sku |-> sku, warehouse_id |-> w,
   qty_on_hand |-> R(qty), batch_id |-> batch, expiry_date |-> None]

StockItems ==
  {StockItem(Today - 1, "A", "w1", 5, NULL),
   StockItem(Today - 1, "A", "w1", 9, "b2"),
   StockItem(Today, "A", "w1", -3, NULL),
   StockItem(Today, "B", "w1", 9, NULL),
   StockItem(Today + 1, "A", "w1", 200, NULL)}

StockItemsOf(o) == {x \in StockItems : o = "o1" \/ x.sku = "B"}

InitReco ==
  /\ now = Midnight(Today)
  /\ sales_events = EmptyTable
  /\ sales_daily \in {TableOf(rows) : rows \in RowSetsUpTo(RecoRollups, Cardinality(RecoRollups))}
  /\ buffers = EmptyTable
  /\ stock_snapshots = EmptyTable
  /\ warehouses = EmptyTable
  /\ last = NoOp
  /\ listing = NoListing
  /\ generations = {}
  /\ recalcs = NoRecalcs
  /\ lead_time_stats = EmptyTable
  /\ purchase_orders = EmptyTable
  /\ purchase_order_lines = EmptyTable
  /\ assistantMemory = EmptyTable
  /\ conversations = NoConversations
  /\ orgs = GivenOrgs
  /\ users = EmptyTable
  /\ registrations = NoRegistrations
  /\ recommendations = EmptyTable
  /\ teardowns = NoTeardowns
  /\ openaiClient = FALSE

NextReco ==
  \/ \E o \in Orgs : \E i \in StockItemsOf(o) :
       /\ Cardinality(DOMAIN UpsertStocks(stock_snapshots, o, <<i>>)) <= MaxSnapshots
       /\ ImportStock(o, <<i>>)
  \/ \E o \in Orgs, autoRecalc \in BOOLEAN, page \in 1..MaxPage,
        pageSize \in PageSizes :
       GetRecommendations(o, "w1", Today, autoRecalc, page, pageSize)

SpecReco == InitReco /\ [][NextReco]_vars

---------------------------------------------------------------------------
(* Properties of the recommendation engine, stated on the tables and the   *)
(* page returned by the last getRecommendations call                       *)

RecoCall ==
  last.op = "recommendations" /\ ~last.err /\ Len(last.ret.data) > 0

RecoRows == {last.ret.data[i] : i \in 1..Len(last.ret.data)}

\* the snapshots of the call's org and warehouse for one SKU
SnapshotKeys(sku) ==
  {k \in DOMAIN stock_snapshots :
     k[1] = last.org /\ k[4] = last.wh /\ k[3] = sku}

\* sum of qty_on_hand over the batches of one SKU on the day starting at d
BatchSum(sku, d) ==
  LET keys == {k \in SnapshotKeys(sku) : k[2] >= d /\ k[2] < d + 2}
  IN  RSum([k \in keys |-> stock_snapshots[k].qty_on_hand], keys)

\* on-hand quantity of one SKU at the effective date of the returned page
OnHandAtEffectiveDate(sku) ==
  IF last.ret.effectiveDate = None THEN R(0)
  ELSE BatchSum(sku, last.ret.effectiveDate[1])

BufferOf(sku) == buffers[<<last.org, sku, last.wh>>]

\* C5: getRecommendations returns, as effectiveDate, the requested date when
\* snapshots of the page's SKUs exist on it, and otherwise the most recent
\* earlier snapshot date, never a date after the requested one, with each
\* row's on_hand the sum of that date's batches.
C5_FallbackEffectiveDate ==
  RecoCall =>
    LET dayStart == Midnight(last.a[1])
        mine == UNION {SnapshotKeys(r.sku) : r \in RecoRows}
        onDay == {k \in mine : k[2] >= dayStart /\ k[2] < dayStart + 2}
        earlier == {DateOf(k[2]) : k \in {x \in mine : x[2] < dayStart}}
        eff == last.ret.effectiveDate
    IN  /\ onDay # {} => eff = Some(dayStart)
        /\ (onDay = {} /\ earlier # {}) =>
             LET d == CHOOSE x \in earlier : \A e \in earlier : e <= x
             IN  /\ eff = Some(d)
                 /\ \A r \in RecoRows : r.onHand = BatchSum(r.sku, d)
        /\ eff # None => eff[1] <= dayStart

C7_ZonePartition ==
  RecoCall =>
    \A r \in RecoRows :
      LET onHand == OnHandAtEffectiveDate(r.sku)
          red == BufferOf(r.sku).red_th
          yellow == BufferOf(r.sku).yellow_th
      IN  /\ r.zone = "red" <=> RLe(onHand, red)
          /\ r.zone = "yellow" <=> (RLt(red, onHand) /\ RLe(onHand, yellow))
          /\ r.zone = "green" <=> RLt(yellow, onHand)

\* C7 (amended): exactly one zone is assigned, decided by on_hand and the
\* two thresholds only: red iff on_hand <= red_threshold, yellow iff
\* red_threshold < on_hand <= yellow_threshold, green iff on_hand exceeds
\* both thresholds; green is on_hand > yellow_threshold whenever
\* red_threshold <= yellow_threshold.
C7_ZoneSequential ==
  RecoCall =>
    \A r \in RecoRows :
      LET onHand == OnHandAtEffectiveDate(r.sku)
          red == BufferOf(r.sku).red_th
          yellow == BufferOf(r.sku).yellow_th
      IN  /\ r.zone \in {"red", "yellow", "green"}
          /\ r.zone = "red" <=> RLe(onHand, red)
          /\ r.zone = "yellow" <=> (RLt(red, onHand) /\ RLe(onHand, yellow))
          /\ r.zone = "green" <=> (RLt(red, onHand) /\ RLt(yellow, onHand))
          /\ RLe(red, yellow) => (r.zone = "green" <=> RLt(yellow, onHand))

\* a row whose thresholds are inverted, with on_hand between them
C7_Witness ==
  /\ RecoCall
  /\ \E r \in RecoRows :
       /\ RLt(BufferOf(r.sku).yellow_th, OnHandAtEffectiveDate(r.sku))
       /\ RLe(OnHandAtEffectiveDate(r.sku), BufferOf(r.sku).red_th)
       /\ r.zone = "red"

---------------------------------------------------------------------------
(* calculations/buffers.ts: listBuffersPage, statement by statement.  The  *)
(* two statements of Promise.all([findMany, count]) reach the database     *)
(* separately, in either order; a recalculation may commit between them.   *)

\* mapBuffer
MapBuffer(sku, w, row) ==
  [sku |-> sku, warehouseId |-> w,
   avgDailyDemand |-> row.avg_daily_demand,
   leadTimeDays |-> row.lead_time_days,
   bufferQty |-> row.buffer_qty,
   redThreshold |-> row.red_th,
   yellowThreshold |-> row.yellow_th,
   updatedAt |-> row.updated_at]

\* prisma.buffers.findMany({ where, orderBy: { sku: 'asc' }, skip, take })
FindManyPage(bf, o, w, skip, take) ==
  LET skus == PageOf(BufferSkus(bf, o, w), skip, take)
  IN  [i \in 1..Len(skus) |-> MapBuffer(skus[i], w, bf[<<o, skus[i], w>>])]

\* the call starts: nothing read yet
ListBegin(o, w, skip, take) ==
  /\ listing.pc = "idle"
  /\ listing' = [pc |-> "running", org |-> o, wh |-> w, skip |-> skip,
                 take |-> take, rows |-> None, total |-> None]
  /\ generations' = {buffers}
  /\ UNCHANGED <<now, sales_events, sales_daily, buffers, stock_snapshots,
                 warehouses, last,
                 recalcs, lead_time_stats, purchase_orders,
                 purchase_order_lines,
                 assistantMemory, conversations, orgs, users,
                 registrations, recommendations, teardowns,
                 openaiClient>>

ListFindMany ==
  /\ listing.pc = "running" /\ listing.rows = None
  /\ listing' = [listing EXCEPT !.rows =
                   Some(FindManyPage(buffers, listing.org, listing.wh,
                                     listing.skip, listing.take))]
  /\ UNCHANGED <<now, sales_events, sales_daily, buffers, stock_snapshots,
                 warehouses, last, generations,
                 recalcs, lead_time_stats, purchase_orders,
                 purchase_order_lines,
                 assistantMemory, conversations, orgs, users,
                 registrations, recommendations, teardowns,
                 openaiClient>>

ListCount ==
  /\ listing.pc = "running" /\ listing.total = None
  /\ listing' = [listing EXCEPT !.total =
                   Some(BufferCount(buffers, listing.org, listing.wh))]
  /\ UNCHANGED <<now, sales_events, sales_daily, buffers, stock_snapshots,
                 warehouses, last, generations,
                 recalcs, lead_time_stats, purchase_orders,
                 purchase_order_lines,
                 assistantMemory, conversations, orgs, users,
                 registrations, recommendations, teardowns,
                 openaiClient>>

\* both statements answered: return { items, total }
ListReturn ==
  /\ listing.pc = "running" /\ listing.rows # None /\ listing.total # None
  /\ last' = [op |-> "listBuffersPage", org |-> listing.org,
              wh |-> listing.wh, a |-> <<listing.skip, listing.take>>,
              b |-> None,
              ret |-> [items |-> listing.rows[1], total |-> listing.total[1]],
              err |-> FALSE, again |-> FALSE]
  /\ listing' = NoListing
  /\ UNCHANGED <<now, sales_events, sales_daily, buffers, stock_snapshots,
                 warehouses, generations,
                 recalcs, lead_time_stats, purchase_orders,
                 purchase_order_lines,
                 assistantMemory, conversations, orgs, users,
                 registrations, recommendations, teardowns,
                 openaiClient>>

---------------------------------------------------------------------------
(* Readers against recalculation: two sales lines are ingested, rollups    *)
(* are rebuilt over any range, buffers recalculated, pages listed.         *)

ConcItems ==
  <<[order_id |-> "ord1", line_id |-> "l1",
     order_datetime |-> Midnight(Today - 1), sku |-> "A", qty |-> R(2),
     net_amount |-> R(5), warehouse_id |-> "w1", channel |-> "web"],
    [order_id |-> "ord2", line_id |-> "l1",
     order_datetime |-> Midnight(Today), sku |-> "B", qty |-> R(3),
     net_amount |-> R(2), warehouse_id |-> "w1", channel |-> "web"]>>

Skips == {0, 1}

InitConc ==
  /\ now = Midnight(Today)
  /\ sales_events = UpsertSales(EmptyTable, "o1", ConcItems)
  /\ sales_daily = EmptyTable
  /\ buffers = EmptyTable
  /\ stock_snapshots = EmptyTable
  /\ warehouses = EmptyTable
  /\ last = NoOp
  /\ listing = NoListing
  /\ generations = {}
  /\ recalcs = NoRecalcs
  /\ lead_time_stats = EmptyTable
  /\ purchase_orders = EmptyTable
  /\ purchase_order_lines = EmptyTable
  /\ assistantMemory = EmptyTable
  /\ conversations = NoConversations
  /\ orgs = GivenOrgs
  /\ users = EmptyTable
  /\ registrations = NoRegistrations
  /\ recommendations = EmptyTable
  /\ teardowns = NoTeardowns
  /\ openaiClient = FALSE

NextConc ==
  \/ \E from \in FromDays, to \in ToDays : RebuildSalesDaily("o1", from, to)
  \/ RecalcBuffers("o1", "w1")
  \/ \E skip \in Skips, take \in PageSizes : ListBegin("o1", "w1", skip, take)
  \/ ListFindMany
  \/ ListCount
  \/ ListReturn

SpecConc == InitConc /\ [][NextConc]_vars

\* C4: the upserts of one recalcBuffers run take effect together, and a page
\* read that interleaves with recalculations returns items and total of one
\* single buffer generation: the table at the start of the read or one
\* committed during it.
C4_SingleGeneration ==
  (listing.rows # None /\ listing.total # None) =>
    \E g \in generations :
      /\ listing.rows[1] = FindManyPage(g, listing.org, listing.wh,
                                        listing.skip, listing.take)
      /\ listing.total[1] = BufferCount(g, listing.org, listing.wh)

---------------------------------------------------------------------------
(* middleware/auth, routes/ingest, routes/assistant, assistant/tools.ts,   *)
(* ingest/service.ts: importWarehouses.  Rows of warehouses are keyed by   *)
(* id alone (warehouses_pkey) and carry org_id and name.                   *)

\* orgs.api_key (unique): the org found by findUnique({ api_key }), if any
OrgOfApiKey(key) ==
  IF key = "k1" THEN Some("o1") ELSE IF key = "k2" THEN Some("o2") ELSE None

\* the X-API-Key header values sent, and String.prototype.trim on them
ApiKeyHeaders == {"k2", " k2 ", "kx", " "}
Trim(s) ==
  IF s = " k2 " THEN "k2" ELSE IF s = " a " THEN "a"
  ELSE IF s = " " THEN "" ELSE s

\* JS truthiness of an optional string: undefined and "" are falsy
Truthy(s) == s # None /\ s[1] # ""

\* authMiddleware: a missing or invalid bearer token ends the request with
\* 401; a verified token carries the orgId of its user
AuthMiddleware(token) ==
  IF token = None THEN [status |-> 401, user |-> None]
  ELSE [status |-> 200, user |-> token]

\* getOrgIdFromRequest(req, provided): status 200 with the org, or the
\* statusCode of the error thrown
GetOrgIdFromRequest(user, apiKeyHeader, provided) ==
  IF Truthy(user)
  THEN IF Truthy(provided) /\ provided[1] # user[1]
       THEN [status |-> 403, org |-> NULL]
       ELSE [status |-> 200, org |-> user[1]]
  ELSE LET apiKey == IF apiKeyHeader = None THEN None
                     ELSE Some(Trim(apiKeyHeader[1]))
       IN  IF Truthy(apiKey)
           THEN LET org == OrgOfApiKey(apiKey[1])
                IN  IF org = None THEN [status |-> 401, org |-> NULL]
                    ELSE IF Truthy(provided) /\ provided[1] # org[1]
                    THEN [status |-> 403, org |-> NULL]
                    ELSE [status |-> 200, org |-> org[1]]
           ELSE [status |-> 400, org |-> NULL]

\* one prisma.warehouses.upsert({ where: { id }, update: { name }, create })
UpsertWarehouse(wt, o, item) ==
  LET id == item.warehouse_id
  IN  [k \in DOMAIN wt \cup {id} |->
         IF k # id THEN wt[k]
         ELSE IF id \in DOMAIN wt
              THEN [wt[id] EXCEPT !.name = item.name]
              ELSE [org_id |-> o, name |-> item.name]]

RECURSIVE UpsertWarehouses(_, _, _)
UpsertWarehouses(wt, o, items) ==
  IF items = <<>> THEN wt
  ELSE UpsertWarehouses(UpsertWarehouse(wt, o, Head(items)), o, Tail(items))

\* the response of a request: for whom it acted, what was supplied, with
\* which credentials, the HTTP status and the warehouses rows it read
Response(route, org, provided, credentials, status, read) ==
  [op |-> route, org |-> org, wh |-> NULL, a |-> provided,
   b |-> credentials, ret |-> [status |-> status, read |-> read],
   err |-> status >= 400, again |-> FALSE]

\* POST /ingest/warehouses: authMiddleware, getOrgIdFromRequest with the
\* body's org_id, importWarehouses for the resolved org, 202
PostIngestWarehouses(token, provided, items) ==
  LET route == "POST /ingest/warehouses"
      auth == AuthMiddleware(token)
      res == GetOrgIdFromRequest(auth.user, None, provided)
      status == IF auth.status # 200 THEN auth.status
                ELSE IF res.status # 200 THEN res.status ELSE 202
  IN  /\ warehouses' = IF status = 202
                       THEN UpsertWarehouses(warehouses, res.org, items)
                       ELSE warehouses
      /\ last' = Response(route, IF status = 202 THEN res.org ELSE NULL,
                          provided, <<token, None>>, status, {})
      /\ UNCHANGED <<now, sales_events, sales_daily, buffers,
                     stock_snapshots, listing, generations,
                     recalcs, lead_time_stats, purchase_orders,
                     purchase_order_lines,
                 assistantMemory, conversations, orgs, users,
                 registrations, recommendations, teardowns,
                 openaiClient>>

\* POST /ingest/stock
PostIngestStock(token, provided, items) ==
  LET route == "POST /ingest/stock"
      auth == AuthMiddleware(token)
      res == GetOrgIdFromRequest(auth.user, None, provided)
      status == IF auth.status # 200 THEN auth.status
                ELSE IF res.status # 200 THEN res.status ELSE 202
  IN  /\ stock_snapshots' = IF status = 202
                            THEN UpsertStocks(stock_snapshots, res.org, items)
                            ELSE stock_snapshots
      /\ last' = Response(route, IF status = 202 THEN res.org ELSE NULL,
                          provided, <<token, None>>, status, {})
      /\ UNCHANGED <<now, sales_events, sales_daily, buffers, warehouses,
                     listing, generations,
                     recalcs, lead_time_stats, purchase_orders,
                     purchase_order_lines,
                 assistantMemory, conversations, orgs, users,
                 registrations, recommendations, teardowns,
                 openaiClient>>

\* the get_stock_by_warehouse tool without date or whitelist: the org's
\* snapshots of the SKU on the latest snapshot day, then
\* warehouses.findMany({ where: { id: { in: warehouseIds } } }); the result
\* is the set of warehouses rows read (org_id kept to tell whose they are)
GetStockByWarehouse(st, wt, o, sku) ==
  LET keys == {k \in DOMAIN st : k[1] = o /\ k[3] = sku}
  IN  IF keys = {} THEN {}
      ELSE LET latest == CHOOSE d \in {k[2] : k \in keys} :
                           \A k \in keys : k[2] <= d
               latestDay == DateOf(latest)
               warehouseIds == {k[4] : k \in {x \in keys :
                                  x[2] >= latestDay /\ x[2] < latestDay + 2}}
           IN  {[id |-> id, name |-> wt[id].name, org_id |-> wt[id].org_id] :
                  id \in warehouseIds \cap DOMAIN wt}

\* POST /assistant/query: authMiddleware, getOrgIdFromRequest(req) without
\* the body's org_id, then the conversation, which here calls the tool
PostAssistantQuery(token, provided, sku) ==
  LET route == "POST /assistant/query"
      auth == AuthMiddleware(token)
      res == GetOrgIdFromRequest(auth.user, None, None)
      status == IF auth.status # 200 THEN auth.status ELSE res.status
  IN  /\ last' = Response(route, IF status = 200 THEN res.org ELSE NULL,
                          provided, <<token, None>>, status,
                          IF status = 200
                          THEN GetStockByWarehouse(stock_snapshots, warehouses,
                                                   res.org, sku)
                          ELSE {})
      /\ UNCHANGED <<now, sales_events, sales_daily, buffers,
                     stock_snapshots, warehouses, listing, generations,
                     recalcs, lead_time_stats, purchase_orders,
                     purchase_order_lines,
                 assistantMemory, conversations, orgs, users,
                 registrations, recommendations, teardowns,
                 openaiClient>>

\* getOrgIdFromRequest applied to a request as it stands
ResolveOrg(user, apiKeyHeader, provided) ==
  LET res == GetOrgIdFromRequest(user, apiKeyHeader, provided)
  IN  /\ last' = Response("getOrgIdFromRequest", res.org, provided,
                          <<user, apiKeyHeader>>, res.status, {})
      /\ UNCHANGED <<now, sales_events, sales_daily, buffers,
                     stock_snapshots, warehouses, listing, generations,
                     recalcs, lead_time_stats, purchase_orders,
                     purchase_order_lines,
                 assistantMemory, conversations, orgs, users,
                 registrations, recommendations, teardowns,
                 openaiClient>>

---------------------------------------------------------------------------
(* Request layer: two tenants post warehouses and stock and ask questions  *)

Tokens == {None, Some("o1"), Some("o2")}
ProvidedOrgIds == {None, Some(""), Some("o1"), Some("o2")}
WarehouseNames == {"n1", "n2"}
WarehouseItems ==
  {[warehouse_id |-> w, name |-> n] : w \in WarehouseIds, n \in WarehouseNames}
ApiStockItems == {StockItem(Today, "A", "w1", 5, NULL)}
Routes ==
  {"POST /ingest/warehouses", "POST /ingest/stock", "POST /assistant/query",
   "getOrgIdFromRequest"}

InitApi ==
  /\ now = Midnight(Today)
  /\ sales_events = EmptyTable
  /\ sales_daily = EmptyTable
  /\ buffers = EmptyTable
  /\ stock_snapshots = EmptyTable
  /\ warehouses = EmptyTable
  /\ last = NoOp
  /\ listing = NoListing
  /\ generations = {}
  /\ recalcs = NoRecalcs
  /\ lead_time_stats = EmptyTable
  /\ purchase_orders = EmptyTable
  /\ purchase_order_lines = EmptyTable
  /\ assistantMemory = EmptyTable
  /\ conversations = NoConversations
  /\ orgs = GivenOrgs
  /\ users = EmptyTable
  /\ registrations = NoRegistrations
  /\ recommendations = EmptyTable
  /\ teardowns = NoTeardowns
  /\ openaiClient = FALSE

NextApi ==
  \/ \E token \in Tokens, provided \in ProvidedOrgIds, i \in WarehouseItems :
       PostIngestWarehouses(token, provided, <<i>>)
  \/ \E token \in Tokens, provided \in ProvidedOrgIds, i \in ApiStockItems :
       PostIngestStock(token, provided, <<i>>)
  \/ \E token \in Tokens, provided \in ProvidedOrgIds :
       PostAssistantQuery(token, provided, "A")
  \/ \E user \in {None, Some("o1")},
        apiKeyHeader \in {None} \cup {Some(h) : h \in ApiKeyHeaders},
        provided \in ProvidedOrgIds :
       ResolveOrg(user, apiKeyHeader, provided)

SpecApi == InitApi /\ [][NextApi]_vars

\* the org a request's credentials resolve to: the session's, else the API
\* key's
CredentialOrg(credentials) ==
  IF Truthy(credentials[1]) THEN credentials[1]
  ELSE IF credentials[2] = None THEN None
  ELSE OrgOfApiKey(Trim(credentials[2][1]))

\* C8: a request served for one organization leaves every warehouses and
\* stock_snapshots row of another organization unchanged and reads no
\* warehouses row of another organization.
C8_TenantIsolation ==
  [][(last'.op \in Routes /\ last'.org \in Orgs) =>
       /\ \A id \in DOMAIN warehouses :
            warehouses[id].org_id # last'.org =>
              id \in DOMAIN warehouses' /\ warehouses'[id] = warehouses[id]
       /\ \A k \in DOMAIN stock_snapshots :
            k[1] # last'.org =>
              /\ k \in DOMAIN stock_snapshots'
              /\ stock_snapshots'[k] = stock_snapshots[k]
       /\ \A r \in last'.ret.read : r.org_id = last'.org]_vars

\* C9: a request that supplies an org_id different from the org of its
\* credentials is answered 403, reads nothing and changes no table.
C9_MismatchIsFatal ==
  [][(/\ last'.op \in Routes
      /\ last'.a # None
      /\ CredentialOrg(last'.b) # None
      /\ last'.a[1] # CredentialOrg(last'.b)[1]) =>
       /\ last'.ret.status = 403
       /\ last'.ret.read = {}
       /\ warehouses' = warehouses
       /\ stock_snapshots' = stock_snapshots]_vars

---------------------------------------------------------------------------
(* calculations/buffers.ts: recalcBuffers, statement by statement: the     *)
(* groupBy is answered, the upserts are built (updated_at: new Date()),    *)
(* then the $transaction commits.  Another run may come in between.        *)

\* demandRows: sku -> _avg units
DemandRows(sd, o, w, since) ==
  [s \in DemandSkus(sd, o, w, since) |->
     AvgUnits(sd, {r \in DemandKeys(sd, o, w, since) : r[3] = s})]

\* the $transaction of the upserts built from demandRows at time t
UpsertDemandRowsMut(bf, o, w, rows, t) ==
  LET touched == {<<o, s, w>> : s \in DOMAIN rows}
  IN  [k \in DOMAIN bf \cup touched |->
         IF k \notin touched THEN bf[k]
         ELSE IF k \in DOMAIN bf
              THEN BufferRow(RAdd(bf[k].avg_daily_demand, rows[k[2]]), t)
              ELSE BufferRow(rows[k[2]], t)]
UpsertDemandRows(bf, o, w, rows, t) ==
  LET touched == {<<o, s, w>> : s \in DOMAIN rows}
  IN  [k \in DOMAIN bf \cup touched |->
         IF k \in touched THEN BufferRow(rows[k[2]], t) ELSE bf[k]]

\* the groupBy; with no demand rows the run returns { updated: 0 } here
RecalcRead(p, o, w) ==
  LET since == SinceDate(now)
      rows == DemandRows(sales_daily, o, w, since)
  IN  /\ recalcs[p].pc = "idle"
      /\ IF DOMAIN rows = {}
         THEN /\ last' = [op |-> "recalc", org |-> o, wh |-> w, a |-> since,
                          b |-> None, ret |-> 0, err |-> FALSE,
                          again |-> FALSE]
              /\ UNCHANGED recalcs
         ELSE /\ recalcs' = [recalcs EXCEPT ![p] =
                               [pc |-> "commit", org |-> o, wh |-> w,
                                rows |-> rows, t |-> now]]
              /\ UNCHANGED last
      /\ UNCHANGED <<now, sales_events, sales_daily, buffers,
                     stock_snapshots, warehouses, listing, generations,
                     lead_time_stats, purchase_orders, purchase_order_lines,
                 assistantMemory, conversations, orgs, users,
                 registrations, recommendations, teardowns,
                 openaiClient>>

\* the transaction commits; again tells that rows of the scope existed
RecalcCommit(p) ==
  LET r == recalcs[p]
  IN  /\ r.pc = "commit"
      /\ buffers' = UpsertDemandRows(buffers, r.org, r.wh, r.rows, r.t)
      /\ last' = [op |-> "recalc", org |-> r.org, wh |-> r.wh,
                  a |-> SinceDate(r.t), b |-> None,
                  ret |-> Cardinality(DOMAIN r.rows), err |-> FALSE,
                  again |-> \E k \in DOMAIN buffers :
                              k[1] = r.org /\ k[3] = r.wh]
      /\ recalcs' = [recalcs EXCEPT ![p] = NoRecalc]
      /\ generations' = Committed(buffers')
      /\ UNCHANGED <<now, sales_events, sales_daily, stock_snapshots,
                     warehouses, listing, lead_time_stats, purchase_orders,
                     purchase_order_lines,
                 assistantMemory, conversations, orgs, users,
                 registrations, recommendations, teardowns,
                 openaiClient>>

---------------------------------------------------------------------------
(* Repeated recalculation: rollups of one org and warehouse are given and  *)
(* stay as they are; two clients recalculate at any time.                  *)

InitRecalc ==
  /\ now = Midnight(Today)
  /\ sales_events = EmptyTable
  /\ sales_daily \in
       {TableOf(rows) :
          rows \in RowSetsUpTo({x \in RollupUniverse :
                                  x.key[1] = "o1" /\ x.key[4] = "w1"},
                               MaxRollups)}
  /\ buffers = EmptyTable
  /\ stock_snapshots = EmptyTable
  /\ warehouses = EmptyTable
  /\ last = NoOp
  /\ listing = NoListing
  /\ generations = {}
  /\ recalcs = NoRecalcs
  /\ lead_time_stats = EmptyTable
  /\ purchase_orders = EmptyTable
  /\ purchase_order_lines = EmptyTable
  /\ assistantMemory = EmptyTable
  /\ conversations = NoConversations
  /\ orgs = GivenOrgs
  /\ users = EmptyTable
  /\ registrations = NoRegistrations
  /\ recommendations = EmptyTable
  /\ teardowns = NoTeardowns
  /\ openaiClient = FALSE

NextRecalc ==
  \/ \E p \in Procs : RecalcRead(p, "o1", "w1")
  \/ \E p \in Procs : RecalcCommit(p)
  \/ Tick

SpecRecalc == InitRecalc /\ [][NextRecalc]_vars

\* the stored values of the Buffer rows, updated_at left out
BufferValues(bf) ==
  [k \in DOMAIN bf |->
     [lead_time_days |-> bf[k].lead_time_days,
      avg_daily_demand |-> bf[k].avg_daily_demand,
      buffer_qty |-> bf[k].buffer_qty,
      red_th |-> bf[k].red_th, yellow_th |-> bf[k].yellow_th]]

\* a run of some client commits in this step
Commits(p) == recalcs[p].pc = "commit" /\ recalcs'[p].pc = "idle"

---------------------------------------------------------------------------
(* assistant/payload.ts: buildExplainPayload.  Rows of lead_time_stats are *)
(* keyed by <<org_id, supplier_id, sku>>, purchase_orders by <<org_id,     *)
(* po_id>>, purchase_order_lines by <<org_id, po_id, sku>>.                *)

DEFAULT_BUFFER_FACTOR == <<6, 5>>

\* round(value, precision)
Round(value, precision) ==
  RDiv(R(RRound(RMul(value, R(Pow10(precision))))), R(Pow10(precision)))

\* computeAvgDailyDemand: _avg units over fromDate <= date <= targetDate,
\* Number(null ?? 0) without rows
ComputeAvgDailyDemand(sd, o, w, sku, targetDate) ==
  LET keys == {k \in DOMAIN sd :
                 /\ k[1] = o /\ k[4] = w /\ k[3] = sku
                 /\ k[2] >= targetDate - Midnight(60) /\ k[2] <= targetDate}
  IN  IF keys = {} THEN R(0) ELSE AvgUnits(sd, keys)

\* computeLeadTime: findFirst({ org_id, sku }) names no order, so any of the
\* matching rows may be the one returned; None without a row
LeadTimeChoices(lts, o, sku) ==
  LET keys == {k \in DOMAIN lts : k[1] = o /\ k[3] = sku}
  IN  IF keys = {} THEN {None}
      ELSE {Some(lts[k].lead_time_days_median) : k \in keys}

\* computeInboundQty: COALESCE(SUM(pol.qty), 0) over the lines of the org
\* and SKU joined to purchase orders with received_at IS NULL
ComputeInboundQty(po, pol, o, sku) ==
  LET keys == {k \in DOMAIN pol :
                 /\ k[1] = o /\ k[3] = sku
                 /\ <<k[1], k[2]>> \in DOMAIN po
                 /\ po[<<k[1], k[2]>>].received_at = None}
  IN  RSum([k \in keys |-> pol[k].qty], keys)

\* stock_snapshots.findFirst({ date: targetDate }) ??
\* findFirst({ orderBy: { date: 'desc' } }): one row; among the batches of
\* the chosen date any may be the one returned; None without a row
SnapshotChoices(st, o, w, sku, targetDate) ==
  LET mine == {k \in DOMAIN st : k[1] = o /\ k[4] = w /\ k[3] = sku}
      exact == {k \in mine : k[2] = targetDate}
      latest == {k \in mine : \A j \in mine : j[2] <= k[2]}
  IN  IF exact # {} THEN {Some(k) : k \in exact}
      ELSE IF latest # {} THEN {Some(k) : k \in latest}
      ELSE {None}

\* the payload computed from the rows read; None is the null result
ExplainPayload(bf, sd, st, po, pol, o, w, sku, targetDate, stat, snapshot) ==
  LET key == <<o, sku, w>>
      hasBuffer == key \in DOMAIN bf
      avgDailyDemand ==
        IF hasBuffer THEN bf[key].avg_daily_demand
        ELSE ComputeAvgDailyDemand(sd, o, w, sku, targetDate)
      bufferFactor ==
        IF hasBuffer
        THEN RDiv(bf[key].buffer_qty,
                  IF avgDailyDemand = R(0) THEN R(1) ELSE avgDailyDemand)
        ELSE DEFAULT_BUFFER_FACTOR
      stored == IF hasBuffer THEN bf[key].lead_time_days
                ELSE IF stat = None THEN R(7) ELSE stat[1]
      leadTimeDays == IF stored = R(0) THEN R(7) ELSE stored
      bufferQty == RMul(RMul(avgDailyDemand, leadTimeDays), bufferFactor)
      onHand == IF snapshot = None THEN R(0)
                ELSE st[snapshot[1]].qty_on_hand
      inbound == ComputeInboundQty(po, pol, o, sku)
      reservations == R(0)
      stockPosition == RSub(RAdd(onHand, inbound), reservations)
      penetration == IF RLt(R(0), bufferQty)
                     THEN RDiv(stockPosition, bufferQty) ELSE R(0)
      zone == IF RLe(penetration, <<1, 3>>) THEN "Red"
              ELSE IF RLe(penetration, <<2, 3>>) THEN "Yellow" ELSE "Green"
      orderRaw == RSub(bufferQty, stockPosition)
  IN  IF snapshot = None /\ avgDailyDemand = R(0) /\ bufferQty = R(0)
      THEN None
      ELSE Some([sku |-> sku, warehouse_id |-> w, zone |-> zone,
                 avg_daily_demand |-> Round(avgDailyDemand, 1),
                 lead_time_days |-> Round(leadTimeDays, 2),
                 buffer_factor |-> Round(bufferFactor, 2),
                 buffer_qty |-> Round(bufferQty, 1),
                 on_hand |-> Round(onHand, 1),
                 inbound |-> Round(inbound, 1),
                 reservations |-> reservations,
                 order_raw |-> Round(orderRaw, 1),
                 buffer_penetration |-> Round(penetration, 2)])

\* buildExplainPayload({ orgId, warehouseId, sku, date }): date given as a
\* day, or absent (then the clock)
BuildExplainPayload(o, w, sku, date) ==
  LET targetDate == IF date = None THEN now ELSE Midnight(date[1])
  IN  \E stat \in LeadTimeChoices(lead_time_stats, o, sku) :
      \E snapshot \in SnapshotChoices(stock_snapshots, o, w, sku, targetDate) :
        /\ last' = [op |-> "explain", org |-> o, wh |-> w,
                    a |-> <<sku, targetDate>>, b |-> date,
                    ret |-> ExplainPayload(buffers, sales_daily,
                                           stock_snapshots, purchase_orders,
                                           purchase_order_lines, o, w, sku,
                                           targetDate, stat, snapshot),
                    err |-> FALSE, again |-> FALSE]
        /\ UNCHANGED <<now, sales_events, sales_daily, buffers,
                       stock_snapshots, warehouses, listing, generations,
                       recalcs, lead_time_stats, purchase_orders,
                       purchase_order_lines,
                 assistantMemory, conversations, orgs, users,
                 registrations, recommendations, teardowns,
                 openaiClient>>

---------------------------------------------------------------------------
(* Explanations beside recommendations: one org and warehouse with rollups,*)
(* lead-time statistics and purchase orders given; stock is ingested,      *)
(* buffers are recalculated, pages and explanations are read.              *)

ExplainRollups == {{}, {RollupRow("o1", "w1", "A", 2)}}

LeadTimeTables ==
  {EmptyTable,
   [k \in {<<"o1", "s1", "A">>} |-> [lead_time_days_median |-> R(14)]]}

\* no purchase order; one open order of 10 units of A; the same received
PurchaseOrderTables ==
  {[po |-> EmptyTable, pol |-> EmptyTable]} \cup
  {[po |-> [k \in {<<"o1", "po1">>} |-> [received_at |-> r]],
    pol |-> [k \in {<<"o1", "po1", "A">>} |-> [qty |-> R(10)]]] :
     r \in {None, Some(Midnight(Today - 1))}}

ExplainDates == {None, Some(Today - 1)}
RequestDates == {Today - 1, InvalidDate}

InitExplain ==
  /\ now = Midnight(Today)
  /\ sales_events = EmptyTable
  /\ sales_daily \in {TableOf(rows) : rows \in ExplainRollups}
  /\ buffers = EmptyTable
  /\ stock_snapshots = EmptyTable
  /\ warehouses = EmptyTable
  /\ last = NoOp
  /\ listing = NoListing
  /\ generations = {}
  /\ recalcs = NoRecalcs
  /\ lead_time_stats \in LeadTimeTables
  /\ \E x \in PurchaseOrderTables :
       purchase_orders = x.po /\ purchase_order_lines = x.pol
  /\ assistantMemory = EmptyTable
  /\ conversations = NoConversations
  /\ orgs = GivenOrgs
  /\ users = EmptyTable
  /\ registrations = NoRegistrations
  /\ recommendations = EmptyTable
  /\ teardowns = NoTeardowns
  /\ openaiClient = FALSE

NextExplain ==
  \/ \E i \in StockItemsOf("o1") :
       /\ Cardinality(DOMAIN UpsertStocks(stock_snapshots, "o1", <<i>>))
            <= MaxSnapshots
       /\ ImportStock("o1", <<i>>)
  \/ RecalcBuffers("o1", "w1")
  \/ \E date \in RequestDates, autoRecalc \in BOOLEAN :
       GetRecommendations("o1", "w1", date, autoRecalc, 1, 2)
  \/ \E sku \in Skus, date \in ExplainDates :
       BuildExplainPayload("o1", "w1", sku, date)

SpecExplain == InitExplain /\ [][NextExplain]_vars

\* the lead time the resolution order gives for a SKU whose Buffer row, if
\* any, is row: the stored one, else a LeadTimeStat median, else 7
ResolvedLeadTimes(bf, o, w, sku) ==
  IF <<o, sku, w>> \in DOMAIN bf THEN {bf[<<o, sku, w>>].lead_time_days}
  ELSE LET keys == {k \in DOMAIN lead_time_stats : k[1] = o /\ k[3] = sku}
       IN  IF keys = {} THEN {R(7)}
           ELSE {lead_time_stats[k].lead_time_days_median : k \in keys}

\* C11: the lead time of a SKU's buffer, as recalcBuffers stores it and as
\* buildExplainPayload reports it, is the stored Buffer.lead_time_days if a
\* Buffer row exists, else a LeadTimeStat median of the SKU, else 7.
C11_LeadTimeResolution ==
  [][/\ last'.op = "recalc" =>
          \A k \in DOMAIN buffers' :
            (k[1] = last'.org /\ k[3] = last'.wh /\ buffers'[k].updated_at = now
               /\ (k \notin DOMAIN buffers \/ buffers'[k] # buffers[k])) =>
              buffers'[k].lead_time_days
                \in ResolvedLeadTimes(buffers, k[1], k[3], k[2])
     /\ (last'.op = "explain" /\ last'.ret # None) =>
          \E lt \in ResolvedLeadTimes(buffers, last'.org, last'.wh,
                                      last'.a[1]) :
            last'.ret[1].lead_time_days = Round(lt, 2)]_vars

\* C17: a recommendations call whose date is no valid date ends in an error
\* and no Buffer row is created or updated by it.
C17_InvalidDateRejected ==
  [][(last'.op = "recommendations" /\ last'.a[1] = InvalidDate) =>
       last'.err /\ buffers' = buffers]_vars

\* C18: with a stored Buffer row, the explanation reports that row's
\* buffer_qty (rounded to one decimal) and order_raw = buffer_qty -
\* (on_hand + inbound).
C18_ExplainBufferQty ==
  (/\ last.op = "explain" /\ last.ret # None
   /\ <<last.org, last.a[1], last.wh>> \in DOMAIN buffers) =>
    LET stored == buffers[<<last.org, last.a[1], last.wh>>].buffer_qty
        payload == last.ret[1]
    IN  /\ payload.buffer_qty = Round(stored, 1)
        /\ payload.order_raw =
             Round(RSub(stored, RAdd(payload.on_hand, payload.inbound)), 1)

\* the snapshot day an explanation uses: the requested day if the SKU has a
\* snapshot on it, else the SKU's latest snapshot day
ExplainDay(sku, targetDate) ==
  LET keys == SnapshotKeys(sku)
  IN  IF \E k \in keys : k[2] >= DateOf(targetDate) /\ k[2] < DateOf(targetDate) + 2
      THEN DateOf(targetDate)
      ELSE DateOf(CHOOSE d \in {k[2] : k \in keys} :
                    \A k \in keys : k[2] <= d)

\* C19: the on_hand of an explanation is the sum of qty_on_hand over all
\* batches of the SKU on the snapshot day used.
C19_ExplainOnHand ==
  (/\ last.op = "explain" /\ last.ret # None
   /\ SnapshotKeys(last.a[1]) # {}) =>
    last.ret[1].on_hand =
      Round(BatchSum(last.a[1], ExplainDay(last.a[1], last.a[2])), 1)

ZoneLower(zone) ==
  IF zone = "Red" THEN "red" ELSE IF zone = "Yellow" THEN "yellow" ELSE "green"

\* C20: the zone of an explanation is, letter case apart, the zone of the
\* SKU's row in the recommendations of the same day on the same tables.
C20_ExplainZone ==
  (last.op = "explain" /\ last.ret # None) =>
    LET page == RecommendationPage(buffers, stock_snapshots, last.org,
                                   last.wh, last.a[2] \div 2, 1, 2)
    IN  \A i \in 1..Len(page.data) :
          page.data[i].sku = last.a[1] =>
            ZoneLower(last.ret[1].zone) = page.data[i].zone

---------------------------------------------------------------------------
(* Recommendation pages as a function of the Buffer and StockSnapshot rows *)

\* the fields of a page that the determinism guarantee names
ListedFields(page) ==
  [total |-> page.total,
   effectiveDate |-> page.effectiveDate,
   data |-> [i \in 1..Len(page.data) |->
               [sku |-> page.data[i].sku,
                zone |-> page.data[i].zone,
                target |-> page.data[i].target,
                onHand |-> page.data[i].onHand,
                suggestedQty |-> page.data[i].suggestedQty,
                bufferPenetration |-> page.data[i].bufferPenetration,
                overstock |-> page.data[i].overstock]]]

\* C15: the zone, target, on_hand, suggested_qty, penetration, overstock,
\* total and effectiveDate that getRecommendations returns are those
\* determined by its arguments and the Buffer and StockSnapshot rows it was
\* called on, whatever the rollups and the clock are.
C15_DeterministicInBuffersAndStock ==
  [][(last'.op = "recommendations" /\ ~last'.err) =>
       ListedFields(last'.ret) =
         ListedFields(RecommendationPage(buffers, stock_snapshots, last'.org,
                                         last'.wh, last'.a[1], last'.b[1],
                                         last'.b[2]))]_vars

\* C16: a row's overstock flag is raised exactly when
\* on_hand > avg_daily_demand * 30 * 1.1, for every avg_daily_demand >= 0,
\* and a raised flag's ratio is on_hand / (avg_daily_demand * 30).
C16_OverstockFlag ==
  RecoCall =>
    \A r \in RecoRows :
      LET onHand == OnHandAtEffectiveDate(r.sku)
          avg == BufferOf(r.sku).avg_daily_demand
      IN  RLe(R(0), avg) =>
            /\ r.overstock # None <=> RLt(RMul(avg, R(33)), onHand)
            /\ r.overstock # None =>
                 /\ RLt(R(0), avg)
                 /\ r.overstock[1].ratio =
                      RoundNumber(RDiv(onHand, RMul(avg, R(30))), 2)

---------------------------------------------------------------------------
(* kpi/service.ts: getSkuKpi                                               *)

KpiDefaultDays == 30

\* aggregate where org_id, sku, warehouse_id, date in [fromDate, toDate 23:59]
KpiKeys(sd, o, sku, warehouse, fromDate, toDate) ==
  {k \in DOMAIN sd : /\ k[1] = o /\ k[3] = sku /\ k[4] = warehouse
                     /\ k[2] >= Midnight(fromDate)
                     /\ k[2] <= Midnight(toDate) + 1}

\* the rows of the latest snapshot date of the SKU in the warehouse
LatestStockKeys(st, o, sku, warehouse) ==
  LET keys == {k \in DOMAIN st : k[1] = o /\ k[3] = sku /\ k[4] = warehouse}
  IN  {k \in keys : \A x \in keys : x[2] <= k[2]}

\* _min expiry_date: NULLs are skipped
MinExpiry(st, keys) ==
  LET days == {st[k].expiry_date[1] : k \in {x \in keys : st[x].expiry_date # None}}
  IN  IF days = {} THEN None
      ELSE Some(CHOOSE d \in days : \A e \in days : d <= e)

SkuKpi(sd, st, o, sku, warehouseId, from, to, t) ==
  LET today == t \div 2
      fromDate == IF from = None THEN today - KpiDefaultDays ELSE from[1]
      toDate == IF to = None THEN today ELSE to[1]
      warehouse == IF warehouseId = None THEN WAREHOUSE_FALLBACK ELSE warehouseId[1]
      keys == KpiKeys(sd, o, sku, warehouse, fromDate, toDate)
      windowDays == Max(1, toDate - fromDate + 1)
      totalUnits == RSum([k \in keys |-> sd[k].units], keys)
      avgDailyDemand == IF keys = {} THEN R(0) ELSE AvgUnits(sd, keys)
      latest == LatestStockKeys(st, o, sku, warehouse)
      onHand == RSum([k \in latest |-> st[k].qty_on_hand], latest)
      minExpiry == MinExpiry(st, latest)
      dos == IF RLt(R(0), avgDailyDemand)
             THEN Some(RDiv(onHand, avgDailyDemand)) ELSE None
      dailyUnits == RDiv(totalUnits, R(windowDays))
      turns == IF RLt(R(0), onHand)
               THEN RDiv(RMul(dailyUnits, R(365)), onHand) ELSE R(0)
      dosTruthy == dos # None /\ dos[1] # R(0)
      medianDaysToSell ==
        IF RLt(R(0), turns) THEN Some(RRound(RDiv(R(365), turns)))
        ELSE IF dosTruthy THEN Some(RRound(dos[1])) ELSE None
      fefoRisk == IF minExpiry # None /\ dosTruthy
                  THEN minExpiry[1] - today < RCeil(dos[1]) ELSE FALSE
  IN  [sku |-> sku, from |-> fromDate, to |-> toDate,
       metrics |-> [dos |-> dos, turns |-> turns,
                    median_days_to_sell |-> medianDaysToSell,
                    fefo_risk |-> fefoRisk, on_hand |-> onHand,
                    avg_daily_demand |-> avgDailyDemand]]

GetSkuKpi(o, sku, warehouseId, from, to) ==
  /\ last' = [op |-> "kpi", org |-> o,
              wh |-> IF warehouseId = None THEN WAREHOUSE_FALLBACK
                     ELSE warehouseId[1],
              a |-> sku, b |-> <<from, to>>,
              ret |-> SkuKpi(sales_daily, stock_snapshots, o, sku,
                             warehouseId, from, to, now),
              err |-> FALSE, again |-> FALSE]
  /\ UNCHANGED <<now, sales_events, sales_daily, buffers, stock_snapshots,
                 warehouses, listing, generations, recalcs, lead_time_stats,
                 purchase_orders, purchase_order_lines,
                 assistantMemory, conversations, orgs, users,
                 registrations, recommendations, teardowns,
                 openaiClient>>

KpiRollup(day, w, channel, units) ==
  [key |-> <<"o1", Midnight(day), "A", w, channel>>,
   row |-> [units |-> R(units), revenue |-> R(0), orders |-> 1,
            updated_at |-> Midnight(Today)]]

KpiRollups ==
  {KpiRollup(Today, "w1", "ALL", 2), KpiRollup(Today, "w1", "web", 4),
   KpiRollup(Today - 1, "w1", "ALL", 0),
   KpiRollup(Today - LookbackDays, "w1", "ALL", 2),
   KpiRollup(Today, WAREHOUSE_FALLBACK, "ALL", 2)}

KpiStockItems ==
  {StockItem(Today - 1, "A", "w1", 5, NULL),
   StockItem(Today - 1, "A", "w1", 9, "b2"),
   StockItem(Today, "A", "w1", 0, NULL),
   StockItem(Today, "A", WAREHOUSE_FALLBACK, 9, NULL),
   [StockItem(Today, "A", "w1", 30, "b3") EXCEPT !.expiry_date = Some(Today + 1)]}

KpiFromDays == {None, Some(Today - 1), Some(Today + 1)}
KpiToDays == {None, Some(Today)}

InitKpi ==
  /\ now = Midnight(Today)
  /\ sales_events = EmptyTable
  /\ sales_daily \in {TableOf(rows) : rows \in RowSetsUpTo(KpiRollups, MaxRollups)}
  /\ buffers = EmptyTable
  /\ stock_snapshots = EmptyTable
  /\ warehouses = EmptyTable
  /\ last = NoOp
  /\ listing = NoListing
  /\ generations = {}
  /\ recalcs = NoRecalcs
  /\ lead_time_stats = EmptyTable
  /\ purchase_orders = EmptyTable
  /\ purchase_order_lines = EmptyTable
  /\ assistantMemory = EmptyTable
  /\ conversations = NoConversations
  /\ orgs = GivenOrgs
  /\ users = EmptyTable
  /\ registrations = NoRegistrations
  /\ recommendations = EmptyTable
  /\ teardowns = NoTeardowns
  /\ openaiClient = FALSE

NextKpi ==
  \/ \E i \in KpiStockItems :
       /\ Cardinality(DOMAIN UpsertStocks(stock_snapshots, "o1", <<i>>))
            <= MaxSnapshots
       /\ ImportStock("o1", <<i>>)
  \/ \E warehouseId \in {None, Some("w1")}, from \in KpiFromDays,
        to \in KpiToDays :
       GetSkuKpi("o1", "A", warehouseId, from, to)

SpecKpi == InitKpi /\ [][NextKpi]_vars

\* units sold in the window of the last getSkuKpi call per day of the window
WindowDemand ==
  LET keys == KpiKeys(sales_daily, last.org, last.a, last.wh,
                      last.ret.from, last.ret.to)
      windowDays == Max(1, last.ret.to - last.ret.from + 1)
  IN  RDiv(RSum([k \in keys |-> sales_daily[k].units], keys), R(windowDays))

\* C21: getSkuKpi returns dos = on_hand / avg_daily_demand when the demand
\* is positive and null when it is zero, and turns = (units sold in the
\* window / days of the window) * 365 / on_hand when on_hand > 0 and 0 when
\* on_hand is 0, avg_daily_demand being the demand per day of that same
\* window.
C21_KpiDosTurns ==
  (last.op = "kpi" /\ RLe(R(0), WindowDemand)
     /\ RLe(R(0), last.ret.metrics.on_hand)) =>
    LET m == last.ret.metrics
    IN  /\ m.avg_daily_demand = WindowDemand
        /\ m.dos = IF RLt(R(0), m.avg_daily_demand)
                   THEN Some(RDiv(m.on_hand, m.avg_daily_demand)) ELSE None
        /\ m.turns = IF RLt(R(0), m.on_hand)
                     THEN RDiv(RMul(WindowDemand, R(365)), m.on_hand)
                     ELSE R(0)

---------------------------------------------------------------------------
(* Pages of getRecommendations over the Buffer rows of an org+warehouse    *)

SkuIndex(sku) == CHOOSE i \in 1..Len(SkuOrder) : SkuOrder[i] = sku

\* the buffered SKUs of the last call's org+warehouse
Buffered == {k[2] : k \in {x \in DOMAIN buffers :
                             x[1] = last.org /\ x[3] = last.wh}}

\* position of a buffered SKU in ascending SKU order
Rank(sku) == Cardinality({s \in Buffered : SkuIndex(s) <= SkuIndex(sku)})

\* C22: the page getRecommendations returns for (page, pageSize) lists, in
\* ascending SKU order, exactly the buffered SKUs of the org+warehouse at
\* positions (page-1)*pageSize+1 .. page*pageSize of that order, so pages
\* are disjoint and together list every buffered SKU once; total is the
\* number of Buffer rows of the org+warehouse; a page past the end is empty.
C22_Pagination ==
  (last.op = "recommendations" /\ ~last.err) =>
    LET data == last.ret.data
        page == last.b[1]
        pageSize == last.b[2]
    IN  /\ \A i, j \in 1..Len(data) :
             i < j => SkuIndex(data[i].sku) < SkuIndex(data[j].sku)
        /\ {data[i].sku : i \in 1..Len(data)} =
             {s \in Buffered : /\ Rank(s) > (page - 1) * pageSize
                               /\ Rank(s) <= page * pageSize}
        /\ last.ret.total = Cardinality(Buffered)
        /\ (page - 1) * pageSize >= Cardinality(Buffered) => data = <<>>

\* the second page of size 1 holds the second of two buffered SKUs
C22_Witness ==
  /\ last.op = "recommendations" /\ ~last.err
  /\ last.b = <<2, 1>>
  /\ Cardinality(Buffered) = 2
  /\ Len(last.ret.data) = 1
  /\ last.ret.data[1].sku = "B"

---------------------------------------------------------------------------
(* Write footprint of getRecommendations                                   *)

\* C25: getRecommendations with autoRecalc = false changes no stored row;
\* with autoRecalc = true it creates or changes only Buffer rows of the
\* requested org+warehouse; stock snapshots, rollups, sales events,
\* warehouses, lead-time statistics and purchase orders are never changed.
C25_RecommendationsFrame ==
  [][last'.op = "recommendations" =>
       /\ UNCHANGED <<stock_snapshots, sales_daily, sales_events, warehouses,
                      lead_time_stats, purchase_orders, purchase_order_lines,
                 assistantMemory, conversations, orgs, users,
                 registrations, recommendations, teardowns,
                 openaiClient>>
       /\ DOMAIN buffers \subseteq DOMAIN buffers'
       /\ \A k \in DOMAIN buffers' :
            (k \notin DOMAIN buffers \/ buffers'[k] # buffers[k]) =>
              /\ last'.a[2]
              /\ k[1] = last'.org /\ k[3] = last'.wh]_vars

\* a call with autoRecalc = true has written Buffer rows of its org beside
\* Buffer rows of another org, with stock snapshots stored
C25_Witness ==
  /\ last.op = "recommendations" /\ last.a[2]
  /\ \E k \in DOMAIN buffers : k[1] = last.org /\ k[3] = last.wh
  /\ \E k \in DOMAIN buffers : k[1] # last.org
  /\ stock_snapshots # EmptyTable

---------------------------------------------------------------------------
(* assistant/tools.ts: get_recommendations_for_sku and suggest_rebalance   *)

\* pageSize of the tool's one getRecommendations call: 100 in the source,
\* scaled to the model's two SKUs
ToolPageSize == 1

\* recs.find((row) => row.sku === parsed.sku)
FindRow(data, sku) ==
  LET hits == {i \in 1..Len(data) : data[i].sku = sku}
  IN  IF hits = {} THEN None
      ELSE Some(data[CHOOSE i \in hits : \A j \in hits : i <= j])

GetRecommendationsForSku(o, w, sku) ==
  LET since == SinceDate(now)
      n == Cardinality(DemandSkus(sales_daily, o, w, since))
      bf == IF n > 0
            THEN UpsertBuffers(buffers, sales_daily, o, w, since, now)
            ELSE buffers
      date == now \div 2
      recs == RecommendationPage(bf, stock_snapshots, o, w, date, 1,
                                 ToolPageSize).data
  IN  /\ buffers' = bf
      /\ last' = [op |-> "get_recommendations_for_sku", org |-> o, wh |-> w,
                  a |-> sku, b |-> date, ret |-> FindRow(recs, sku),
                  err |-> FALSE, again |-> FALSE]
      /\ generations' = Committed(buffers')
      /\ UNCHANGED <<now, sales_events, sales_daily, stock_snapshots,
                     warehouses, listing, recalcs, lead_time_stats,
                     purchase_orders, purchase_order_lines,
                 assistantMemory, conversations, orgs, users,
                 registrations, recommendations, teardowns,
                 openaiClient>>

ClampNumber(value, min, max) ==
  IF RLt(value, min) THEN min ELSE IF RLt(max, value) THEN max ELSE value

DEFAULT_MAX_MOVES == 5

\* groupBy warehouse_id, _sum qty_on_hand over the day starting at dayStart
QueryRange(st, o, sku, warehouseIds, dayStart) ==
  LET keys == {k \in DOMAIN st : /\ k[1] = o /\ k[3] = sku
                                 /\ k[4] \in warehouseIds
                                 /\ k[2] >= dayStart /\ k[2] < dayStart + 2}
  IN  [w \in {k[4] : k \in keys} |->
         RSum([k \in {x \in keys : x[4] = w} |-> st[k].qty_on_hand],
              {x \in keys : x[4] = w})]

LoadStockDistribution(st, o, sku, requestedDate, warehouseIds) ==
  LET base == {k \in DOMAIN st : k[1] = o /\ k[3] = sku /\ k[4] \in warehouseIds}
      requested == IF requestedDate = None THEN <<>>
                   ELSE QueryRange(st, o, sku, warehouseIds,
                                   Midnight(requestedDate[1]))
  IN  IF requestedDate # None /\ DOMAIN requested # {}
      THEN Some([effectiveDate |-> Midnight(requestedDate[1]),
                 rows |-> requested])
      ELSE IF base = {} THEN None
      ELSE LET latestDay == DateOf(CHOOSE d \in {k[2] : k \in base} :
                                     \A k \in base : k[2] <= d)
           IN  Some([effectiveDate |-> latestDay,
                     rows |-> QueryRange(st, o, sku, warehouseIds, latestDay)])

\* analysis row of one warehouse
Analysis(bf, stockMap, o, sku, w) ==
  LET onHand == IF w \in DOMAIN stockMap THEN stockMap[w] ELSE R(0)
      target == bf[<<o, sku, w>>].buffer_qty
  IN  [onHand |-> onHand, target |-> target,
       surplus |-> IF RLt(target, onHand) THEN RSub(onHand, target) ELSE R(0),
       deficit |-> IF RLt(onHand, target) THEN RSub(target, onHand) ELSE R(0)]

\* filter(f > 0).sort(descending f): the order of equal elements is the
\* order in which findMany returned them, which no orderBy fixes
SortedDesc(S, f) ==
  {seq \in [1..Cardinality(S) -> S] :
     /\ \A i, j \in 1..Cardinality(S) : i < j =>
          seq[i] # seq[j] /\ RLe(f[seq[j]], f[seq[i]])}

RECURSIVE RebalanceLoop(_, _, _, _, _, _, _, _)
RebalanceLoop(maxMoves, surplusList, deficitList, i, j, surplus, deficit, moves) ==
  IF ~(/\ RLt(R(Len(moves)), maxMoves)
       /\ i <= Len(surplusList) /\ j <= Len(deficitList))
  THEN moves
  ELSE LET donor == surplusList[i]
           receiver == deficitList[j]
           qty == IF RLe(surplus[donor], deficit[receiver])
                  THEN surplus[donor] ELSE deficit[receiver]
           s2 == [surplus EXCEPT ![donor] = RSub(@, qty)]
           d2 == [deficit EXCEPT ![receiver] = RSub(@, qty)]
       IN  IF RLe(qty, R(0)) THEN moves
           ELSE RebalanceLoop(maxMoves, surplusList, deficitList,
                  IF RLe(s2[donor], <<1, 100>>) THEN i + 1 ELSE i,
                  IF RLe(d2[receiver], <<1, 100>>) THEN j + 1 ELSE j,
                  s2, d2,
                  Append(moves, [from |-> donor, to |-> receiver,
                                 qty |-> RoundNumber(qty, 1)]))

SuggestRebalance(o, sku, date, max_moves) ==
  LET maxMoves == ClampNumber(IF max_moves = None THEN R(DEFAULT_MAX_MOVES)
                              ELSE max_moves[1], R(1), R(20))
      warehouseIds == {k[3] : k \in {x \in DOMAIN buffers :
                                       x[1] = o /\ x[2] = sku}}
      distribution == LoadStockDistribution(stock_snapshots, o, sku, date,
                                            warehouseIds)
      analysis == [w \in warehouseIds |->
                     Analysis(buffers, distribution[1].rows, o, sku, w)]
      surplus == [w \in warehouseIds |-> analysis[w].surplus]
      deficit == [w \in warehouseIds |-> analysis[w].deficit]
      donors == {w \in warehouseIds : RLt(R(0), surplus[w])}
      receivers == {w \in warehouseIds : RLt(R(0), deficit[w])}
  IN  /\ \/ /\ warehouseIds = {} \/ distribution = None
            /\ last' = [op |-> "suggest_rebalance", org |-> o, wh |-> NULL,
                        a |-> sku, b |-> <<date, maxMoves>>, ret |-> None,
                        err |-> FALSE, again |-> FALSE]
         \/ /\ warehouseIds # {} /\ distribution # None
            /\ \E surplusList \in SortedDesc(donors, surplus),
                  deficitList \in SortedDesc(receivers, deficit) :
                 last' = [op |-> "suggest_rebalance", org |-> o, wh |-> NULL,
                          a |-> sku, b |-> <<date, maxMoves>>,
                          ret |-> Some([effective_date |->
                                          distribution[1].effectiveDate,
                                        suggestions |->
                                          RebalanceLoop(maxMoves, surplusList,
                                            deficitList, 1, 1, surplus,
                                            deficit, <<>>)]),
                          err |-> FALSE, again |-> FALSE]
      /\ UNCHANGED <<now, sales_events, sales_daily, buffers, stock_snapshots,
                     warehouses, listing, generations, recalcs,
                     lead_time_stats, purchase_orders, purchase_order_lines,
                 assistantMemory, conversations, orgs, users,
                 registrations, recommendations, teardowns,
                 openaiClient>>

ToolWarehouses == {"w1", "w2", WAREHOUSE_FALLBACK}

ToolRollups ==
  {RollupRow("o1", "w1", "A", 2), RollupRow("o1", "w2", "A", 2),
   RollupRow("o1", WAREHOUSE_FALLBACK, "A", 1), RollupRow("o1", "w1", "B", 2)}

\* A in w1: 30 and 16.83 against a target of 16.8; A in w2: 10
ToolStockItems ==
  {StockItem(Today, "A", "w1", 30, NULL),
   [StockItem(Today, "A", "w1", 0, "b2") EXCEPT !.qty_on_hand = <<1683, 100>>],
   StockItem(Today, "A", "w2", 10, NULL),
   StockItem(Today - 1, "A", WAREHOUSE_FALLBACK, 20, NULL)}

MaxMovesArgs == {None, Some(R(1)), Some(<<3, 2>>)}

InitTools ==
  /\ now = Midnight(Today)
  /\ sales_events = EmptyTable
  /\ sales_daily \in {TableOf(rows) : rows \in SUBSET ToolRollups}
  /\ buffers = EmptyTable
  /\ stock_snapshots = EmptyTable
  /\ warehouses = EmptyTable
  /\ last = NoOp
  /\ listing = NoListing
  /\ generations = {}
  /\ recalcs = NoRecalcs
  /\ lead_time_stats = EmptyTable
  /\ purchase_orders = EmptyTable
  /\ purchase_order_lines = EmptyTable
  /\ assistantMemory = EmptyTable
  /\ conversations = NoConversations
  /\ orgs = GivenOrgs
  /\ users = EmptyTable
  /\ registrations = NoRegistrations
  /\ recommendations = EmptyTable
  /\ teardowns = NoTeardowns
  /\ openaiClient = FALSE

NextTools ==
  \/ \E i \in ToolStockItems :
       /\ Cardinality(DOMAIN UpsertStocks(stock_snapshots, "o1", <<i>>))
            <= MaxSnapshots
       /\ ImportStock("o1", <<i>>)
  \/ \E w \in ToolWarehouses : RecalcBuffers("o1", w)
  \/ \E sku \in Skus : GetRecommendationsForSku("o1", "w1", sku)
  \/ \E date \in {None, Some(Today)}, max_moves \in MaxMovesArgs :
       SuggestRebalance("o1", "A", date, max_moves)

SpecTools == InitTools /\ [][NextTools]_vars

\* C26: get_recommendations_for_sku returns the row of (warehouse, sku)
\* whenever a Buffer row of that org, warehouse and SKU exists after the
\* recalculation, however many other SKUs are buffered in the warehouse,
\* and the 'not found' message only when there is no such Buffer row.
C26_ToolFindsBufferedSku ==
  last.op = "get_recommendations_for_sku" =>
    /\ last.ret # None <=> <<last.org, last.a, last.wh>> \in DOMAIN buffers
    /\ last.ret # None => last.ret[1].sku = last.a

\* the moves of the last suggest_rebalance call
Moves == last.ret[1].suggestions

\* on-hand and target of a warehouse as the call read them
RebalanceRow(w) ==
  Analysis(buffers,
           QueryRange(stock_snapshots, last.org, last.a, ToolWarehouses,
                      last.ret[1].effective_date),
           last.org, last.a, w)

MovedOut(w) ==
  LET idx == {i \in 1..Len(Moves) : Moves[i].from = w}
  IN  RSum([i \in idx |-> Moves[i].qty], idx)

MovedIn(w) ==
  LET idx == {i \in 1..Len(Moves) : Moves[i].to = w}
  IN  RSum([i \in idx |-> Moves[i].qty], idx)

\* C29: suggest_rebalance yields at most max_moves (clamped to 1..20)
\* moves; every move has qty > 0 and goes from a warehouse with on_hand
\* above its target to another warehouse with on_hand below its target;
\* no warehouse gives more than its surplus or receives more than its
\* deficit.
C29_RebalanceMoves ==
  (last.op = "suggest_rebalance" /\ last.ret # None) =>
    /\ RLe(R(Len(Moves)), last.b[2])
    /\ \A i \in 1..Len(Moves) :
         /\ RLt(R(0), Moves[i].qty)
         /\ Moves[i].from # Moves[i].to
         /\ RLt(RebalanceRow(Moves[i].from).target,
                RebalanceRow(Moves[i].from).onHand)
         /\ RLt(RebalanceRow(Moves[i].to).onHand,
                RebalanceRow(Moves[i].to).target)
    /\ \A w \in ToolWarehouses :
         <<last.org, last.a, w>> \in DOMAIN buffers =>
           /\ RLe(MovedOut(w), RebalanceRow(w).surplus)
           /\ RLe(MovedIn(w), RebalanceRow(w).deficit)

---------------------------------------------------------------------------
(* Ingest as upsert by natural ids: payloads of one or two items, applied  *)
(* again and again as time passes.                                         *)

SaleItem(order, line, datetime, qty) ==
  [order_id |-> order, line_id |-> line, order_datetime |-> datetime,
   sku |-> "A", qty |-> R(qty), net_amount |-> None,
   warehouse_id |-> NULL, channel |-> NULL]

SalesPayloads ==
  {<<SaleItem("ord1", "l1", Midnight(Today), 2)>>,
   <<SaleItem("ord1", "l1", Midnight(Today), 2),
     SaleItem("ord1", "l2", Midnight(Today), 1)>>,
   <<SaleItem("ord1", "l2", Midnight(Today), 1),
     SaleItem("ord1", "l2", Midnight(Today), 4)>>,
   <<SaleItem("ord2", "l1", Midnight(Today), 1),
     SaleItem("ord2", "l2", InvalidDate, 1)>>}

StockPayloads ==
  {<<StockItem(Today, "A", "w1", 5, NULL)>>,
   <<StockItem(Today, "A", "w1", 9, DEFAULT_BATCH_ID)>>,
   <<StockItem(Today, "A", "w1", 5, NULL),
     StockItem(Today, "A", "w1", 9, "b2")>>,
   <<StockItem(Today, "B", "w1", 1, NULL),
     [StockItem(Today, "B", "w2", 1, NULL) EXCEPT !.date = InvalidDate]>>}

InitIngest ==
  /\ now = Midnight(Today)
  /\ sales_events = EmptyTable
  /\ sales_daily = EmptyTable
  /\ buffers = EmptyTable
  /\ stock_snapshots = EmptyTable
  /\ warehouses = EmptyTable
  /\ last = NoOp
  /\ listing = NoListing
  /\ generations = {}
  /\ recalcs = NoRecalcs
  /\ lead_time_stats = EmptyTable
  /\ purchase_orders = EmptyTable
  /\ purchase_order_lines = EmptyTable
  /\ assistantMemory = EmptyTable
  /\ conversations = NoConversations
  /\ orgs = GivenOrgs
  /\ users = EmptyTable
  /\ registrations = NoRegistrations
  /\ recommendations = EmptyTable
  /\ teardowns = NoTeardowns
  /\ openaiClient = FALSE

NextIngest ==
  \/ \E o \in Orgs, items \in SalesPayloads : ImportSales(o, items)
  \/ \E items \in StockPayloads : ImportStock("o1", items)
  \/ Tick

SpecIngest == InitIngest /\ [][NextIngest]_vars

SaleKeyOf(o, item) == <<o, item.order_id, item.line_id>>

StockKeyOf(o, item) ==
  <<o, item.date, item.sku, item.warehouse_id,
    IF item.batch_id = NULL THEN "_default" ELSE item.batch_id>>

\* the last item of a payload with the given key
LastWithKey(items, KeyOf(_, _), o, k) ==
  items[CHOOSE i \in 1..Len(items) :
          /\ KeyOf(o, items[i]) = k
          /\ \A j \in 1..Len(items) : KeyOf(o, items[j]) = k => j <= i]

\* the ingested columns of a stored row
SaleValues(row) ==
  [order_datetime |-> row.order_datetime, sku |-> row.sku, qty |-> row.qty,
   net_amount |-> row.net_amount, warehouse_id |-> row.warehouse_id,
   channel |-> row.channel]

StockValues(row) ==
  [qty_on_hand |-> row.qty_on_hand, expiry_date |-> row.expiry_date]

\* C23 as stated: applying the same payload a second time leaves the stored
\* rows exactly as the first application left them.
C23_SameStoredRows ==
  [][(last'.op \in {"importSales", "importStock"} /\ last'.again) =>
       sales_events' = sales_events /\ stock_snapshots' = stock_snapshots]_vars

\* C23 amended: an ingest call (a step on which the clock stands still)
\* stores, under each natural key of its payload, the values of the
\* payload's last item with that key, adding a row only for a key not yet
\* stored and leaving every other row as it
\* was; a payload applied a second time leaves the same keys and values,
\* only updated_at of a stock row moves to the time of the second call; a
\* payload that fails stores nothing.
C23_IdempotentUpsert ==
  [][/\ (last'.op = "importSales" /\ now' = now) =>
          LET items == last'.a
              keys == {SaleKeyOf(last'.org, items[i]) : i \in 1..Len(items)}
          IN  IF last'.err THEN sales_events' = sales_events
              ELSE /\ DOMAIN sales_events' = DOMAIN sales_events \cup keys
                   /\ \A k \in DOMAIN sales_events \ keys :
                        sales_events'[k] = sales_events[k]
                   /\ \A k \in keys :
                        /\ SaleValues(sales_events'[k]) =
                             [x \in DOMAIN SaleValues(sales_events'[k]) |->
                                LastWithKey(items, SaleKeyOf, last'.org, k)[x]]
                   /\ last'.again =>
                        /\ DOMAIN sales_events' = DOMAIN sales_events
                        /\ \A k \in keys : SaleValues(sales_events'[k]) =
                                             SaleValues(sales_events[k])
     /\ (last'.op = "importStock" /\ now' = now) =>
          LET items == last'.a
              keys == {StockKeyOf(last'.org, items[i]) : i \in 1..Len(items)}
          IN  IF last'.err THEN stock_snapshots' = stock_snapshots
              ELSE /\ DOMAIN stock_snapshots' = DOMAIN stock_snapshots \cup keys
                   /\ \A k \in DOMAIN stock_snapshots \ keys :
                        stock_snapshots'[k] = stock_snapshots[k]
                   /\ \A k \in keys :
                        /\ StockValues(stock_snapshots'[k]) =
                             [x \in DOMAIN StockValues(stock_snapshots'[k]) |->
                                LastWithKey(items, StockKeyOf, last'.org, k)[x]]
                        /\ stock_snapshots'[k].updated_at = now'
                   /\ last'.again =>
                        /\ DOMAIN stock_snapshots' = DOMAIN stock_snapshots
                        /\ \A k \in keys : StockValues(stock_snapshots'[k]) =
                                             StockValues(stock_snapshots[k])]_vars

\* a two-item stock payload has been applied a second time, later than the
\* first, over a row stored under the default batch
C23_Witness ==
  /\ last.op = "importStock" /\ last.again /\ ~last.err
  /\ Len(last.a) = 2
  /\ now > Midnight(Today)
  /\ \A i \in 1..2 :
       /\ StockKeyOf(last.org, last.a[i]) \in DOMAIN stock_snapshots
       /\ stock_snapshots[StockKeyOf(last.org, last.a[i])].updated_at = now
  /\ <<"o1", Midnight(Today), "A", "w1", "_default">> \in DOMAIN stock_snapshots

---------------------------------------------------------------------------
(***************************************************************************)
(* The assistant: POST /assistant/query and runAssistantConversation.      *)
(* assistantMemory is the process-wide Map from a memory key to the        *)
(* exchanges kept for it.  A conversation awaits the model once per loop   *)
(* iteration; everything between two awaits runs without interruption.     *)
(* What the model answers is not determined by the program, so every       *)
(* completion is one of CompletionOutcomes.  The n-th question put to the  *)
(* assistant is the number n, which tells the exchanges apart.             *)
(***************************************************************************)
MAX_MEMORY_ENTRIES == 4
MaxIterationsMut == 4 + 1
MaxIterations == 4
MaxQuestions == 5

\* who sends the request: a signed-in user of an org, or an API key of an org
Requesters ==
  {[userId |-> Some("u1"), orgId |-> "o1"],
   [userId |-> None, orgId |-> "o1"],
   [userId |-> None, orgId |-> "o2"]}

\* req.user?.userId ? `user:${req.user.userId}` : `org:${orgId}`
MemoryKey(req) ==
  IF req.userId # None THEN <<"user:", req.userId[1]>>
  ELSE <<"org:", req.orgId>>

MemoryKeys == {MemoryKey(req) : req \in Requesters}

\* buildAssistantContext: the warehouses of the org (take: 3 never cuts the
\* two warehouse ids of the model)
BuildAssistantContext(wt, orgId) ==
  [warehouses |-> {id \in DOMAIN wt : wt[id].org_id = orgId}]

\* summarizeContext: null without warehouses, else a text that always holds
\* the warehouse status heading
SummarizeContext(context) ==
  IF context.warehouses = {} THEN None ELSE Some("### Status skladiv")

NoClientText == "### Vysnovok - Dani tymchasovo nedostupni."
LoopFallbackText == "### Vysnovok - Ne vdalosya otrymaty vidpovid AI. Sprobuyte inakshe."
RouteFallbackText == "### Vysnovok - Ne vdalosya otrymaty vidpovid AI. Sprobuyte piznishe."

\* a ?? b
OrElse(a, b) == IF a # None THEN a[1] ELSE b

\* Array.prototype.slice(-n), and a variant that keeps the first n
SliceLastMut(seq, n) == SubSeq(seq, 1, Min(n, Len(seq)))
SliceLast(seq, n) == SubSeq(seq, Max(1, Len(seq) - n + 1), Len(seq))

\* assistantMemory.get(memoryKey) ?? []
HistoryOf(mem, memoryKey) ==
  IF memoryKey \in DOMAIN mem THEN mem[memoryKey] ELSE <<>>

\* history.push({ user, assistant }); set(memoryKey, history.slice(-4))
Remember(mem, memoryKey, question, content) ==
  LET history == Append(HistoryOf(mem, memoryKey),
                        [user |-> question, assistant |-> content])
      trimmed == SliceLast(history, MAX_MEMORY_ENTRIES)
  IN  [k \in DOMAIN mem \cup {memoryKey} |->
         IF k = memoryKey THEN trimmed ELSE mem[k]]

\* what one chat.completions.create call can bring: it throws, or it returns
\* no message, or a message with tool calls (each tool runs or throws) or
\* with a content that may be missing or blank
CompletionOutcomes ==
  {[throws |-> TRUE, message |-> None],
   [throws |-> FALSE, message |-> None],
   [throws |-> FALSE,
    message |-> Some([tool_calls |-> <<"ok">>, content |-> None])],
   [throws |-> FALSE,
    message |-> Some([tool_calls |-> <<"ok", "throws">>, content |-> None])],
   [throws |-> FALSE,
    message |-> Some([tool_calls |-> <<>>, content |-> None])],
   [throws |-> FALSE,
    message |-> Some([tool_calls |-> <<>>, content |-> Some(" ")])],
   [throws |-> FALSE,
    message |-> Some([tool_calls |-> <<>>, content |-> Some(" a ")])]}

\* the completion call or one of the requested tools throws
Throws(r) ==
  \/ r.throws
  \/ /\ r.message # None
     /\ \E i \in 1..Len(r.message[1].tool_calls) :
          r.message[1].tool_calls[i] = "throws"

\* message.content?.trim() of a message without tool calls
ContentOf(r) ==
  IF r.message = None \/ r.message[1].content = None THEN None
  ELSE Some(Trim(r.message[1].content[1]))

\* the completion is an answer: no tool calls and a content that is not blank
Answers(r) ==
  /\ ~r.throws
  /\ r.message # None
  /\ Len(r.message[1].tool_calls) = 0
  /\ Truthy(ContentOf(r))

\* the questions still held by a conversation or by the memory
AskedQuestions ==
  {conversations[p].question : p \in {q \in Procs : conversations[q].pc = "running"}}
  \cup UNION {{assistantMemory[k][i].user : i \in 1..Len(assistantMemory[k])} :
              k \in DOMAIN assistantMemory}

NextQuestion ==
  IF AskedQuestions = {} THEN 1
  ELSE (CHOOSE n \in AskedQuestions : \A m \in AskedQuestions : m <= n) + 1

\* res.json({ question, answer }) of the route
Answered(c, answer, threw) ==
  [op |-> "assistant", org |-> c.orgId, wh |-> NULL, a |-> Some(c.question),
   b |-> c.memoryKey, ret |-> Some(answer), err |-> threw, again |-> FALSE]

\* POST /assistant/query up to the first await of the model: the memory key,
\* the context, and without an OpenAI client the summary at once
AssistantQuery(p, req, question) ==
  /\ conversations[p].pc = "idle"
  /\ question = NextQuestion
  /\ LET c == [pc |-> "running", orgId |-> req.orgId,
               memoryKey |-> MemoryKey(req), question |-> question,
               context |-> BuildAssistantContext(warehouses, req.orgId),
               iteration |-> 0]
     IN  IF ~openaiClient
         THEN /\ last' = Answered(c, OrElse(SummarizeContext(c.context),
                                            NoClientText), FALSE)
              /\ UNCHANGED conversations
         ELSE /\ conversations' = [conversations EXCEPT ![p] = c]
              /\ UNCHANGED last
  /\ UNCHANGED <<now, sales_events, sales_daily, buffers, stock_snapshots,
                 warehouses, listing, generations, recalcs, lead_time_stats,
                 purchase_orders, purchase_order_lines, assistantMemory,
                 orgs, users, registrations, recommendations, teardowns,
                 openaiClient>>

\* one iteration of the loop of runAssistantConversation, from the completion
\* call to the next one or to the response of the route
Completion(p, r) ==
  LET c == conversations[p]
      fallback == OrElse(SummarizeContext(c.context), LoopFallbackText)
      next == c.iteration + 1
  IN  /\ c.pc = "running"
      /\ IF Throws(r)
         THEN /\ last' = Answered(c, OrElse(SummarizeContext(c.context),
                                            RouteFallbackText), TRUE)
              /\ conversations' = [conversations EXCEPT ![p] = NoConversation]
              /\ UNCHANGED assistantMemory
         ELSE IF r.message = None
         THEN /\ last' = Answered(c, fallback, FALSE)
              /\ conversations' = [conversations EXCEPT ![p] = NoConversation]
              /\ UNCHANGED assistantMemory
         ELSE IF Len(r.message[1].tool_calls) > 0 \/ ~Truthy(ContentOf(r))
         THEN IF next < MaxIterations
              THEN /\ conversations' =
                        [conversations EXCEPT ![p].iteration = next]
                   /\ UNCHANGED <<last, assistantMemory>>
              ELSE /\ last' = Answered(c, fallback, FALSE)
                   /\ conversations' =
                        [conversations EXCEPT ![p] = NoConversation]
                   /\ UNCHANGED assistantMemory
         ELSE /\ assistantMemory' =
                   Remember(assistantMemory, c.memoryKey, c.question,
                            ContentOf(r)[1])
              /\ last' = Answered(c, ContentOf(r)[1], FALSE)
              /\ conversations' = [conversations EXCEPT ![p] = NoConversation]
      /\ UNCHANGED <<now, sales_events, sales_daily, buffers, stock_snapshots,
                     warehouses, listing, generations, recalcs,
                     lead_time_stats, purchase_orders, purchase_order_lines,
                     orgs, users, registrations, recommendations, teardowns,
                     openaiClient>>

\* the memory after user u1 had three questions answered and nobody else
\* asked anything
EarlierExchanges ==
  [k \in {<<"user:", "u1">>} |->
     [i \in 1..3 |-> [user |-> i, assistant |-> "a"]]]

InitAssistant ==
  /\ now = Midnight(Today)
  /\ sales_events = EmptyTable
  /\ sales_daily = EmptyTable
  /\ buffers = EmptyTable
  /\ stock_snapshots = EmptyTable
  /\ warehouses = [id \in {"w1"} |-> [org_id |-> "o1", name |-> "w1"]]
  /\ last = NoOp
  /\ listing = NoListing
  /\ generations = {}
  /\ recalcs = NoRecalcs
  /\ lead_time_stats = EmptyTable
  /\ purchase_orders = EmptyTable
  /\ purchase_order_lines = EmptyTable
  /\ assistantMemory = EarlierExchanges
  /\ conversations = NoConversations
  /\ orgs = GivenOrgs
  /\ users = EmptyTable
  /\ registrations = NoRegistrations
  /\ recommendations = EmptyTable
  /\ teardowns = NoTeardowns
  /\ openaiClient \in BOOLEAN

NextAssistant ==
  \/ \E p \in Procs, req \in Requesters, question \in 1..MaxQuestions :
       AssistantQuery(p, req, question)
  \/ \E p \in Procs, r \in CompletionOutcomes : Completion(p, r)

SpecAssistant == InitAssistant /\ [][NextAssistant]_vars

\* C24: under every key the memory holds at most 4 exchanges; a step changes
\* the history of a key only when a conversation of that key receives an
\* answer, and the history is then the old one followed by that exchange,
\* cut to its most recent 4 in the same order; every answer is remembered.
C24_BoundedMemory ==
  [][/\ \A k \in DOMAIN assistantMemory' :
          /\ k \in MemoryKeys
          /\ Len(assistantMemory'[k]) <= 4
     /\ \A k \in MemoryKeys :
          \/ HistoryOf(assistantMemory', k) = HistoryOf(assistantMemory, k)
          \/ \E p \in Procs, r \in CompletionOutcomes :
               /\ Completion(p, r)
               /\ Answers(r)
               /\ conversations[p].memoryKey = k
     /\ \A p \in Procs, r \in CompletionOutcomes :
          Completion(p, r) /\ Answers(r) =>
            LET k == conversations[p].memoryKey
                all == Append(HistoryOf(assistantMemory, k),
                              [user |-> conversations[p].question,
                               assistant |-> ContentOf(r)[1]])
                new == HistoryOf(assistantMemory', k)
                drop == Len(all) - Len(new)
            IN  /\ Len(new) = Min(4, Len(all))
                /\ \A i \in 1..Len(new) : new[i] = all[drop + i]]_vars

\* five questions of one key were answered and the first one is forgotten
C24_Witness ==
  \E k \in DOMAIN assistantMemory :
    /\ Len(assistantMemory[k]) = 4
    /\ assistantMemory[k][1].user = 2
    /\ assistantMemory[k][4].user = 5
    /\ last.op = "assistant" /\ last.b = k /\ last.a = Some(5) /\ ~last.err

\* C28: a running conversation has made fewer than 4 completion calls and
\* every call ends it or counts as one more, so there is no fifth call; the
\* answer of a conversation in which nothing threw is not empty and is the
\* model's content, the context summary or the fallback text; the memory
\* changes only on a model answer with a content that is not blank.
C28_BoundedLoop ==
  [][/\ \A p \in Procs :
          conversations'[p].pc = "running" =>
            conversations'[p].iteration < 4
     /\ \A p \in Procs, r \in CompletionOutcomes :
          Completion(p, r) =>
            /\ \/ conversations'[p].pc = "idle"
               \/ conversations'[p].iteration = conversations[p].iteration + 1
            /\ conversations'[p].pc = "idle" /\ ~Throws(r) =>
                 /\ last'.ret # None /\ last'.ret[1] # ""
                 /\ IF Answers(r) THEN last'.ret[1] = ContentOf(r)[1]
                    ELSE last'.ret[1] \in
                           {"### Status skladiv", LoopFallbackText}
            /\ assistantMemory' # assistantMemory => Answers(r)
     /\ (\A p \in Procs, r \in CompletionOutcomes : ~Completion(p, r)) =>
          assistantMemory' = assistantMemory]_vars

\* a conversation without a context summary ended with the fallback text
\* while another one has three completion calls behind it
C28_Witness ==
  /\ last.op = "assistant" /\ ~last.err
  /\ last.ret = Some(LoopFallbackText)
  /\ \E p \in Procs :
       conversations[p].pc = "running" /\ conversations[p].iteration = 3

---------------------------------------------------------------------------
(***************************************************************************)
(* Registration: POST /auth/register and createOrgAndUser.  The lookup of  *)
(* the email and the transaction that creates the three rows are two       *)
(* database round trips with awaits between them, so another registration  *)
(* can run in between.  orgs is keyed by id, users by id with the unique   *)
(* index users_email_key on email.                                         *)
(***************************************************************************)
RegisterEmails == {"a@x.com", "A@x.com", "b@x.com"}
OrgNames == {"Acme", "Beta"}

\* input.email.trim().toLowerCase()
NormalizeEmail(e) == IF e = "A@x.com" THEN "a@x.com" ELSE e

\* the slug of generateOrgId: lower case, runs of other characters as "-"
Slug(name) == IF name = "Acme" THEN "acme" ELSE "beta"

\* randomUUID().slice(0, 4): which value comes out is not determined
Suffixes == {"0a1b", "9f3c"}

\* generateOrgId(name) and `${orgId}-wh-${suffix}` for a drawn suffix
GenerateOrgId(name, suffix) == <<Slug(name), suffix>>
WarehouseIdOf(orgId, suffix) == <<orgId, "-wh-", suffix>>

\* prisma.users.findFirst({ where: { email } })
FindUserByEmail(ut, email) == {id \in DOMAIN ut : ut[id].email = email}

\* users_email_key: the insert of a second row with the email is refused
ViolatesUsersEmailKeyMut(ut, email) == FALSE
ViolatesUsersEmailKey(ut, email) == \E id \in DOMAIN ut : ut[id].email = email

\* the response of the route: 201, or error.statusCode ?? 500
Registered(c, status) ==
  [op |-> "register", org |-> NULL, wh |-> NULL, a |-> Some(c.input),
   b |-> Some(c.orgName), ret |-> Some(status), err |-> status # 201,
   again |-> FALSE]

\* createOrgAndUser up to the end of the lookup: 409 for an email in use
RegisterCheck(p, input, orgName) ==
  LET c == [pc |-> "checked", input |-> input,
            email |-> NormalizeEmail(input), orgName |-> orgName]
  IN  /\ registrations[p].pc = "idle"
      /\ IF FindUserByEmail(users, c.email) # {}
         THEN /\ last' = Registered(c, 409)
              /\ UNCHANGED registrations
         ELSE /\ registrations' = [registrations EXCEPT ![p] = c]
              /\ UNCHANGED last
      /\ UNCHANGED <<now, sales_events, sales_daily, buffers, stock_snapshots,
                     warehouses, listing, generations, recalcs,
                     lead_time_stats, purchase_orders, purchase_order_lines,
                     assistantMemory, conversations, orgs, users,
                     recommendations, teardowns, openaiClient>>

\* the ids are drawn and prisma.$transaction creates org, warehouse and
\* user; a refused insert (primary key or users_email_key) rolls all back
\* and has no statusCode
RegisterCommit(p, orgSuffix, whSuffix) ==
  LET c == registrations[p]
      orgId == GenerateOrgId(c.orgName, orgSuffix)
      warehouseId == WarehouseIdOf(orgId, whSuffix)
      userId == Cardinality(DOMAIN users) + 1
      refused == \/ orgId \in DOMAIN orgs
                 \/ warehouseId \in DOMAIN warehouses
                 \/ ViolatesUsersEmailKey(users, c.email)
  IN  /\ c.pc = "checked"
      /\ registrations' = [registrations EXCEPT ![p] = NoRegistration]
      /\ IF refused
         THEN /\ last' = Registered(c, 500)
              /\ UNCHANGED <<orgs, warehouses, users>>
         ELSE /\ orgs' = [id \in DOMAIN orgs \cup {orgId} |->
                           IF id = orgId THEN [name |-> c.orgName]
                           ELSE orgs[id]]
              /\ warehouses' =
                   [id \in DOMAIN warehouses \cup {warehouseId} |->
                      IF id = warehouseId
                      THEN [org_id |-> orgId, name |-> "Osnovnyi sklad"]
                      ELSE warehouses[id]]
              /\ users' = [id \in DOMAIN users \cup {userId} |->
                            IF id = userId
                            THEN [org_id |-> orgId, email |-> c.email,
                                  role |-> "admin"]
                            ELSE users[id]]
              /\ last' = Registered(c, 201)
      /\ UNCHANGED <<now, sales_events, sales_daily, buffers, stock_snapshots,
                     listing, generations, recalcs, lead_time_stats,
                     purchase_orders, purchase_order_lines, assistantMemory,
                     conversations, recommendations, teardowns, openaiClient>>

InitAuth ==
  /\ now = Midnight(Today)
  /\ sales_events = EmptyTable
  /\ sales_daily = EmptyTable
  /\ buffers = EmptyTable
  /\ stock_snapshots = EmptyTable
  /\ warehouses = EmptyTable
  /\ last = NoOp
  /\ listing = NoListing
  /\ generations = {}
  /\ recalcs = NoRecalcs
  /\ lead_time_stats = EmptyTable
  /\ purchase_orders = EmptyTable
  /\ purchase_order_lines = EmptyTable
  /\ assistantMemory = EmptyTable
  /\ conversations = NoConversations
  /\ orgs = EmptyTable
  /\ users = EmptyTable
  /\ registrations = NoRegistrations
  /\ recommendations = EmptyTable
  /\ teardowns = NoTeardowns
  /\ openaiClient = FALSE

NextAuth ==
  \/ \E p \in Procs, input \in RegisterEmails, orgName \in OrgNames :
       RegisterCheck(p, input, orgName)
  \/ \E p \in Procs, orgSuffix \in Suffixes, whSuffix \in Suffixes :
       RegisterCommit(p, orgSuffix, whSuffix)

SpecAuth == InitAuth /\ [][NextAuth]_vars

\* the admin user created with an org
AdminsOf(ut, orgId) ==
  {id \in DOMAIN ut : ut[id].org_id = orgId /\ ut[id].role = "admin"}

\* C27: a registration whose lookup finds the lower-cased email answers 409
\* and creates nothing; the transaction of a registration creates one org,
\* its warehouse and its admin user with the lower-cased email, or answers
\* an error and creates nothing; in every state no two users have one
\* email, every org has an admin user and every warehouse belongs to an
\* org.
C27_Registration ==
  [][/\ \A p \in Procs, input \in RegisterEmails, orgName \in OrgNames :
          /\ RegisterCheck(p, input, orgName)
          /\ \E id \in DOMAIN users :
               users[id].email \in {"a@x.com", "b@x.com"}
               /\ (users[id].email = "a@x.com") = (input # "b@x.com")
          => /\ last'.ret = Some(409)
             /\ registrations'[p].pc = "idle"
             /\ <<orgs', warehouses', users'>> = <<orgs, warehouses, users>>
     /\ \A p \in Procs, s1 \in Suffixes, s2 \in Suffixes :
          RegisterCommit(p, s1, s2) =>
            \/ /\ last'.ret = Some(201)
               /\ Cardinality(DOMAIN orgs') = Cardinality(DOMAIN orgs) + 1
               /\ Cardinality(DOMAIN warehouses') =
                    Cardinality(DOMAIN warehouses) + 1
               /\ Cardinality(DOMAIN users') = Cardinality(DOMAIN users) + 1
               /\ \A id \in DOMAIN orgs : id \in DOMAIN orgs' /\ orgs'[id] = orgs[id]
               /\ \A id \in DOMAIN users :
                    id \in DOMAIN users' /\ users'[id] = users[id]
               /\ \A id \in DOMAIN warehouses :
                    id \in DOMAIN warehouses' /\ warehouses'[id] = warehouses[id]
            \/ /\ last'.ret # Some(201) /\ last'.err
               /\ <<orgs', warehouses', users'>> = <<orgs, warehouses, users>>
     /\ \A i \in DOMAIN users', j \in DOMAIN users' :
          users'[i].email = users'[j].email => i = j
     /\ \A id \in DOMAIN orgs' : AdminsOf(users', id) # {}
     /\ \A id \in DOMAIN warehouses' : warehouses'[id].org_id \in DOMAIN orgs'
     /\ \A id \in DOMAIN users' :
          users'[id].email \in {"a@x.com", "b@x.com"}]_vars

\* two registrations of one email ran at the same time: one created its org
\* and the other was refused by the unique index
C27_Witness ==
  /\ last.op = "register" /\ last.ret = Some(500)
  /\ \E id \in DOMAIN users : users[id].email = NormalizeEmail(last.a[1])
  /\ Cardinality(DOMAIN orgs) = 1

---------------------------------------------------------------------------
(***************************************************************************)
(* Warehouse teardown: scripts/delete-warehouse.ts.  deleteWarehouse looks *)
(* the warehouse up and then runs one transaction; two runs of the script  *)
(* can be under way at once.  The tables carry no foreign key to           *)
(* warehouses, so rows of another org can name the same warehouse_id.      *)
(***************************************************************************)
TeardownScopes == {<<"o1", "w1">>, <<"o1", "w2">>, <<"o2", "w1">>}
TeardownIds == {"w1", "w2", "w9"}

\* where: { org_id: warehouse.org_id, warehouse_id: warehouseId }, and a
\* variant that leaves the org out
InScopeMut(o, w, rowOrg, rowWh) == rowWh = w
InScope(o, w, rowOrg, rowWh) == rowOrg = o /\ rowWh = w

\* deleteMany on a table whose rows carry org_id and warehouse_id
DeleteManyRows(t, o, w) ==
  LET keep == {k \in DOMAIN t : ~InScope(o, w, t[k].org_id, t[k].warehouse_id)}
  IN  [k \in keep |-> t[k]]

\* deleteMany on sales_events: org_id in the key, warehouse_id in the row
DeleteManyEvents(ev, o, w) ==
  LET keep == {k \in DOMAIN ev : ~InScope(o, w, k[1], ev[k].warehouse_id)}
  IN  [k \in keep |-> ev[k]]

\* deleteMany on a table with org_id first and warehouse_id at position i
\* of the key
DeleteManyKeyed(t, o, w, i) ==
  LET keep == {k \in DOMAIN t : ~InScope(o, w, k[1], k[i])}
  IN  [k \in keep |-> t[k]]

\* the tables of a database in which the rows of the scopes S exist
TeardownOrder(sc) == IF sc[2] = "w1" THEN <<sc[1], "ord1", "l1">>
                     ELSE <<sc[1], "ord2", "l1">>
TeardownEvents(S) ==
  LET unassigned == <<"o1", "ord0", "l1">>
      wh == [k \in {TeardownOrder(sc) : sc \in S} |->
               IF k[2] = "ord1" THEN "w1" ELSE "w2"]
  IN  [k \in DOMAIN wh \cup {unassigned} |->
         [order_datetime |-> Midnight(Today), sku |-> "A", qty |-> R(1),
          net_amount |-> None,
          warehouse_id |-> IF k = unassigned THEN NULL ELSE wh[k],
          channel |-> NULL]]
TeardownDaily(S) ==
  [k \in {<<sc[1], Midnight(Today), "A", sc[2], "ALL">> : sc \in S} |->
     [units |-> R(1), revenue |-> R(0), orders |-> 1,
      updated_at |-> Midnight(Today)]]
TeardownBuffers(S) ==
  [k \in {<<sc[1], "A", sc[2]>> : sc \in S} |->
     BufferRow(R(1), Midnight(Today))]
TeardownStock(S) ==
  [k \in {<<sc[1], Midnight(Today), "A", sc[2], DEFAULT_BATCH_ID>> : sc \in S} |->
     [qty_on_hand |-> R(1), expiry_date |-> None,
      updated_at |-> Midnight(Today)]]
TeardownRecommendations(S) ==
  LET id(sc) == IF sc = <<"o1", "w1">> THEN 1
                ELSE IF sc = <<"o1", "w2">> THEN 2 ELSE 3
  IN  [i \in {id(sc) : sc \in S} |->
         [org_id |-> IF i = 3 THEN "o2" ELSE "o1", date |-> Midnight(Today),
          sku |-> "A", warehouse_id |-> IF i = 2 THEN "w2" ELSE "w1",
          suggested_qty |-> R(1)]]

\* console.warn / console.log of the run
TornDown(id, o, removed, threw) ==
  [op |-> "deleteWarehouse", org |-> o, wh |-> id, a |-> None, b |-> None,
   ret |-> Some(removed), err |-> threw, again |-> FALSE]

\* prisma.warehouses.findUnique({ where: { id } }); not found: skip
DeleteFind(p, id) ==
  /\ teardowns[p].pc = "idle"
  /\ IF id \in DOMAIN warehouses
     THEN /\ teardowns' = [teardowns EXCEPT ![p] =
                             [pc |-> "found", id |-> id,
                              org_id |-> warehouses[id].org_id]]
          /\ UNCHANGED last
     ELSE /\ last' = TornDown(id, NULL, FALSE, FALSE)
          /\ UNCHANGED teardowns
  /\ UNCHANGED <<now, sales_events, sales_daily, buffers, stock_snapshots,
                 warehouses, listing, generations, recalcs, lead_time_stats,
                 purchase_orders, purchase_order_lines, assistantMemory,
                 conversations, orgs, users, registrations, recommendations,
                 openaiClient>>

\* the transaction: five deleteMany and warehouses.delete, which throws and
\* rolls everything back when the row is gone
DeleteCommit(p) ==
  LET id == teardowns[p].id
      o == teardowns[p].org_id
  IN  /\ teardowns[p].pc = "found"
      /\ teardowns' = [teardowns EXCEPT ![p] = NoTeardown]
      /\ IF id \in DOMAIN warehouses
         THEN /\ recommendations' = DeleteManyRows(recommendations, o, id)
              /\ buffers' = DeleteManyKeyed(buffers, o, id, 3)
              /\ stock_snapshots' = DeleteManyKeyed(stock_snapshots, o, id, 4)
              /\ sales_daily' = DeleteManyKeyed(sales_daily, o, id, 4)
              /\ sales_events' = DeleteManyEvents(sales_events, o, id)
              /\ warehouses' = [k \in DOMAIN warehouses \ {id} |-> warehouses[k]]
              /\ last' = TornDown(id, o, TRUE, FALSE)
         ELSE /\ last' = TornDown(id, o, FALSE, TRUE)
              /\ UNCHANGED <<recommendations, buffers, stock_snapshots,
                             sales_daily, sales_events, warehouses>>
      /\ UNCHANGED <<now, listing, generations, recalcs, lead_time_stats,
                     purchase_orders, purchase_order_lines, assistantMemory,
                     conversations, orgs, users, registrations, openaiClient>>

InitTeardown ==
  /\ now = Midnight(Today)
  /\ \E S \in SUBSET TeardownScopes :
       /\ sales_events = TeardownEvents(S)
       /\ sales_daily = TeardownDaily(S)
       /\ buffers = TeardownBuffers(S)
       /\ stock_snapshots = TeardownStock(S)
       /\ recommendations = TeardownRecommendations(S)
  /\ \E W \in SUBSET {"w1", "w2"} :
       warehouses = [id \in W |-> [org_id |-> "o1", name |-> id]]
  /\ last = NoOp
  /\ listing = NoListing
  /\ generations = {}
  /\ recalcs = NoRecalcs
  /\ lead_time_stats = EmptyTable
  /\ purchase_orders = EmptyTable
  /\ purchase_order_lines = EmptyTable
  /\ assistantMemory = EmptyTable
  /\ conversations = NoConversations
  /\ orgs = GivenOrgs
  /\ users = EmptyTable
  /\ registrations = NoRegistrations
  /\ teardowns = NoTeardowns
  /\ openaiClient = FALSE

NextTeardown ==
  \/ \E p \in Procs, id \in TeardownIds : DeleteFind(p, id)
  \/ \E p \in Procs : DeleteCommit(p)

SpecTeardown == InitTeardown /\ [][NextTeardown]_vars

\* the rows of t' are the rows of t that are not of org o and warehouse w
RowsLeft(t, tnew, OfScope(_)) ==
  /\ DOMAIN tnew = {k \in DOMAIN t : ~OfScope(k)}
  /\ \A k \in DOMAIN tnew : tnew[k] = t[k]

\* C30: the lookup step changes no table, and for an id without a
\* warehouse row it ends the run; the transaction step of a run for
\* warehouse w of org o either leaves every table as it was, or removes the
\* warehouse row and from recommendations, buffers, stock_snapshots,
\* sales_daily and sales_events exactly the rows with org o and warehouse w,
\* and it removes them whenever the warehouse row is still there.
C30_Teardown ==
  [][/\ \A p \in Procs, id \in TeardownIds :
          DeleteFind(p, id) =>
            /\ <<recommendations', buffers', stock_snapshots', sales_daily',
                 sales_events', warehouses'>> =
               <<recommendations, buffers, stock_snapshots, sales_daily,
                 sales_events, warehouses>>
            /\ id \notin DOMAIN warehouses => teardowns'[p].pc = "idle"
     /\ \A p \in Procs :
          DeleteCommit(p) =>
            LET w == teardowns[p].id
                o == teardowns[p].org_id
            IN  IF w \in DOMAIN warehouses
                THEN /\ RowsLeft(recommendations, recommendations',
                          LAMBDA k : recommendations[k].org_id = o
                                     /\ recommendations[k].warehouse_id = w)
                     /\ RowsLeft(buffers, buffers',
                          LAMBDA k : k[1] = o /\ k[3] = w)
                     /\ RowsLeft(stock_snapshots, stock_snapshots',
                          LAMBDA k : k[1] = o /\ k[4] = w)
                     /\ RowsLeft(sales_daily, sales_daily',
                          LAMBDA k : k[1] = o /\ k[4] = w)
                     /\ RowsLeft(sales_events, sales_events',
                          LAMBDA k : k[1] = o /\ sales_events[k].warehouse_id = w)
                     /\ RowsLeft(warehouses, warehouses', LAMBDA k : k = w)
                ELSE <<recommendations', buffers', stock_snapshots',
                       sales_daily', sales_events', warehouses'>> =
                     <<recommendations, buffers, stock_snapshots, sales_daily,
                       sales_events, warehouses>>]_vars

\* warehouse w1 of org o1 is torn down; the rows of org o2 that name w1 and
\* the rows of warehouse w2 are still there
C30_Witness ==
  /\ last.op = "deleteWarehouse" /\ last.wh = "w1" /\ last.ret = Some(TRUE)
  /\ "w1" \notin DOMAIN warehouses /\ "w2" \in DOMAIN warehouses
  /\ <<"o1", "A", "w1">> \notin DOMAIN buffers
  /\ <<"o2", "A", "w1">> \in DOMAIN buffers
  /\ <<"o1", "A", "w2">> \in DOMAIN buffers
  /\ DOMAIN recommendations = {2, 3}
  /\ DOMAIN sales_events =
       {<<"o1", "ord0", "l1">>, <<"o1", "ord2", "l1">>, <<"o2", "ord1", "l1">>}

====
